---- MODULE Spec2Model ----
(***************************************************************************)
(* PushWorld: the collision tables built when a puzzle is loaded and the    *)
(* state-transition engine (get_next_state) of PushWorldPuzzle and          *)
(* BraindeadPushWorldPuzzle, with plan validation.                          *)
(*                                                                          *)
(* Points are pairs <<x, y>>.  A state is a function from the movable       *)
(* indices 0..num_movables-1 (the agent is index 0) to points.              *)
(***************************************************************************)
EXTENDS Integers, Sequences, FiniteSets, TLC

VARIABLES
    kind,                  \* "standard" (PushWorldPuzzle) or "braindead"
    layout,                \* the contents of the .pwp file the puzzle was loaded from
    puzzle,                \* the attributes set by __init__
    agent_collision_map,   \* self._agent_collision_map
    wall_collision_map,    \* self._wall_collision_map
    movable_collision_map, \* self._movable_collision_map
    pushed_objects,        \* self._pushed_objects
    state,                 \* the state the caller currently holds
    call,                  \* the most recent completed call: arguments, result, return path
    outcomes,              \* the return paths get_next_state has taken on this instance
    threads,               \* the local variables of each thread inside get_next_state
    env,                   \* the attributes of the PushWorldEnv that holds the puzzle, if any
    folders                \* the original, train, test and archive folders of shuffle_puzzles

vars == <<kind, layout, puzzle, agent_collision_map, wall_collision_map,
          movable_collision_map, pushed_objects, state, call, outcomes, threads, env,
          folders>>

(***************************************************************************)
(* Actions and displacements                                                *)
(***************************************************************************)
NUM_ACTIONS == 4
AGENT_IDX == 0

LEFT == 0
RIGHT == 1
UP == 2
DOWN == 3

ActionSet == 0 .. (NUM_ACTIONS - 1)

\* As DISPLACEMENTS, with the two axes exchanged.
DISPLACEMENTS_axes_exchanged == << <<0, -1>>, <<0, 1>>, <<-1, 0>>, <<1, 0>> >>

DISPLACEMENTS == << <<-1, 0>>, <<1, 0>>, <<0, -1>>, <<0, 1>> >>

\* Actions.DISPLACEMENTS[action], for an action that indexes the array.
Displacement(action) == DISPLACEMENTS[action + 1]

Add(p, q) == <<p[1] + q[1], p[2] + q[2]>>
Sub(p, q) == <<p[1] - q[1], p[2] - q[2]>>

Max(S) == CHOOSE x \in S : \A y \in S : y <= x
Min(S) == CHOOSE x \in S : \A y \in S : x <= y

(***************************************************************************)
(* Geometry primitives                                                      *)
(***************************************************************************)
\* The set {p - offset} for all p in points.
subtract_from_points(points, offset) == { Sub(p, offset) : p \in points }

\* Whether some p1 in s1 and p2 in s2 have p1 + offset = p2.
points_overlap(s1, s2, offset) ==
    (s1 \cap subtract_from_points(s2, offset)) # {}

(***************************************************************************)
(* Collision map builder                                                    *)
(***************************************************************************)
\* As populate_static_collisions, with the positions in which the object already
\* overlaps the obstacle kept.
populate_static_collisions_overlap_kept(action, object_pixels, static_obstacle_pixels, width, height) ==
    LET dis == Displacement(action)
        xx == { p[1] : p \in object_pixels }
        yy == { p[2] : p \in object_pixels }
        w == width - (Max(xx) - Min(xx) + 1)
        h == height - (Max(yy) - Min(yy) + 1)
        candidates == { << (0 - dis[1]) + s[1] - o[1], (0 - dis[2]) + s[2] - o[2] >> :
                            o \in object_pixels, s \in static_obstacle_pixels }
    IN  { c \in candidates : c[1] >= 0 /\ c[2] >= 0 /\ c[1] <= w /\ c[2] <= h }

\* The positions added to collision_positions (which starts empty) by
\* _populate_static_collisions.
populate_static_collisions(action, object_pixels, static_obstacle_pixels, width, height) ==
    LET dis == Displacement(action)
        xx == { p[1] : p \in object_pixels }
        yy == { p[2] : p \in object_pixels }
        w == width - (Max(xx) - Min(xx) + 1)
        h == height - (Max(yy) - Min(yy) + 1)
        candidates == { << (0 - dis[1]) + s[1] - o[1], (0 - dis[2]) + s[2] - o[2] >> :
                            o \in object_pixels, s \in static_obstacle_pixels }
    IN  { c \in candidates :
            /\ c[1] >= 0
            /\ c[2] >= 0
            /\ c[1] <= w
            /\ c[2] <= h
            /\ ~points_overlap(object_pixels, static_obstacle_pixels, c) }

\* As populate_dynamic_collisions, with the sign of the displacement wrong.
populate_dynamic_collisions_sign(action, pusher_pixels, pushee_pixels) ==
    LET dis == Displacement(action)
        candidates == { << dis[1] + q[1] - p[1], dis[2] + q[2] - p[2] >> :
                            p \in pusher_pixels, q \in pushee_pixels }
    IN  { c \in candidates : ~points_overlap(pusher_pixels, pushee_pixels, c) }

\* As populate_dynamic_collisions, with the positions of the pushee relative to the
\* pusher.
populate_dynamic_collisions_pushee_minus_pusher(action, pusher_pixels, pushee_pixels) ==
    LET dis == Displacement(action)
        candidates == { << dis[1] + p[1] - q[1], dis[2] + p[2] - q[2] >> :
                            p \in pusher_pixels, q \in pushee_pixels }
    IN  { c \in candidates : ~points_overlap(pushee_pixels, pusher_pixels, c) }

\* As populate_dynamic_collisions, with the contact taken on either side of the pusher.
populate_dynamic_collisions_either_side(action, pusher_pixels, pushee_pixels) ==
    LET dis == Displacement(action)
        candidates == { << (0 - dis[1]) + q[1] - p[1], (0 - dis[2]) + q[2] - p[2] >> :
                            p \in pusher_pixels, q \in pushee_pixels }
                      \cup { << dis[1] + q[1] - p[1], dis[2] + q[2] - p[2] >> :
                                p \in pusher_pixels, q \in pushee_pixels }
    IN  { c \in candidates : ~points_overlap(pusher_pixels, pushee_pixels, c) }

\* The relative positions added by _populate_dynamic_collisions.
populate_dynamic_collisions(action, pusher_pixels, pushee_pixels) ==
    LET dis == Displacement(action)
        candidates == { << (0 - dis[1]) + q[1] - p[1], (0 - dis[2]) + q[2] - p[2] >> :
                            p \in pusher_pixels, q \in pushee_pixels }
    IN  { c \in candidates : ~points_overlap(pusher_pixels, pushee_pixels, c) }

(***************************************************************************)
(* Puzzle files.  A layout is the content of a .pwp file: cols x rows       *)
(* tokens, ids the element identifiers in order of first appearance, and    *)
(* px the cells (x, y), 1-based, at which each identifier is written.       *)
(***************************************************************************)
Range(s) == { s[i] : i \in 1 .. Len(s) }
Reverse(s) == [ i \in 1 .. Len(s) |-> s[Len(s) + 1 - i] ]

\* Python's string order on the identifiers used, ascending.
ID_ORDER == << "a", "aw", "g1", "g10", "g2", "m1", "m10", "m2", "m3", "w" >>

\* elem_id[0] == "g", elem_id[0] == "m", and "m" + elem_id[1:]
IsGoalId(elem_id) == elem_id \in { "g1", "g10", "g2" }
IsMovableId(elem_id) == elem_id \in { "m1", "m10", "m2", "m3" }
MovableIdOf(elem_id) ==
    CASE elem_id = "g1" -> "m1" [] elem_id = "g10" -> "m10" [] elem_id = "g2" -> "m2"

\* The cells of the one-cell border added around the parsed grid.
BorderWalls(width, height) ==
    { <<xx, 0>> : xx \in 0 .. (width - 1) } \cup { <<xx, height - 1>> : xx \in 0 .. (width - 1) }
    \cup { <<0, yy>> : yy \in 0 .. (height - 1) } \cup { <<width - 1, yy>> : yy \in 0 .. (height - 1) }

PuzzleWidth(l) == l.cols + 2
PuzzleHeight(l) == l.rows + 2

\* obj_pixels in the global frame, after the border has been added to "w".
GlobalPixels(l, elem_id) ==
    IF elem_id = "w"
    THEN (IF "w" \in DOMAIN l.px THEN l.px["w"] ELSE {})
            \cup BorderWalls(PuzzleWidth(l), PuzzleHeight(l))
    ELSE IF elem_id \in DOMAIN l.px THEN l.px[elem_id] ELSE {}

\* The keys of obj_pixels, in insertion order, after the border has been added.
ObjPixelKeys(l) == IF "w" \in Range(l.ids) THEN l.ids ELSE Append(l.ids, "w")

\* sorted_elem_ids: the keys sorted in reverse.
sorted_elem_ids(l) ==
    LET present(elem_id) == elem_id \in Range(ObjPixelKeys(l))
    IN  SelectSeq(Reverse(ID_ORDER), present)

\* object_positions[elem_id]
object_positions(l, elem_id) ==
    IF elem_id = "w" \/ elem_id = "aw"
    THEN <<0, 0>>
    ELSE LET pixels == GlobalPixels(l, elem_id)
         IN  << Min({ p[1] : p \in pixels }), Min({ p[2] : p \in pixels }) >>

\* obj_pixels[elem_id] once it has been made relative to the object's position.
obj_pixels(l, elem_id) ==
    subtract_from_points(GlobalPixels(l, elem_id), object_positions(l, elem_id))

\* The goal identifiers in the order in which the constructor meets them.
GoalIdSeq(l) == SelectSeq(sorted_elem_ids(l), IsGoalId)

\* As movables, with the movables taken in the order of the file.
movables_file_order(l) == <<"a">> \o SelectSeq(ObjPixelKeys(l), IsMovableId)

\* movables: the agent, the movables of the goals in goal order, then the others.
movables(l) ==
    LET goal_ids == GoalIdSeq(l)
        with_goal == [ i \in 1 .. Len(goal_ids) |-> MovableIdOf(goal_ids[i]) ]
        others(elem_id) == IsMovableId(elem_id) /\ elem_id \notin Range(with_goal)
    IN  <<"a">> \o with_goal \o SelectSeq(ObjPixelKeys(l), others)

\* The cells that block the agent: obj_pixels["aw"] after it was updated with the walls.
AgentObstaclePixels(l) == obj_pixels(l, "aw") \cup obj_pixels(l, "w")

\* The attributes of a PushWorldPuzzle after __init__.
LoadPuzzle(l) ==
    LET mv == movables(l)
        goal_ids == GoalIdSeq(l)
    IN  [ width |-> PuzzleWidth(l),
          height |-> PuzzleHeight(l),
          num_movables |-> Len(mv),
          initial_state |-> [ i \in 0 .. (Len(mv) - 1) |-> object_positions(l, mv[i + 1]) ],
          goal_state |-> [ k \in 0 .. (Len(goal_ids) - 1) |-> object_positions(l, goal_ids[k + 1]) ],
          cells |-> [ i \in 0 .. (Len(mv) - 1) |-> obj_pixels(l, mv[i + 1]) ],
          wall_positions |-> obj_pixels(l, "w"),
          agent_wall_positions |-> AgentObstaclePixels(l),
          goal_position |-> <<0, 0>> ]

\* As LoadAgentCollisionMap, with the border left out of the obstacles of the agent.
LoadAgentCollisionMap_no_border(l) ==
    [ a \in ActionSet |->
        populate_static_collisions(a, obj_pixels(l, "a"),
                                   AgentObstaclePixels(l)
                                       \ BorderWalls(PuzzleWidth(l), PuzzleHeight(l)),
                                   PuzzleWidth(l), PuzzleHeight(l)) ]

LoadAgentCollisionMap(l) ==
    [ a \in ActionSet |->
        populate_static_collisions(a, obj_pixels(l, "a"), AgentObstaclePixels(l),
                                   PuzzleWidth(l), PuzzleHeight(l)) ]

\* As LoadWallCollisionMap, with the movables tested against the agent walls too.
LoadWallCollisionMap_agent_walls(l) ==
    LET mv == movables(l)
    IN  [ a \in ActionSet |->
            [ m \in 0 .. (Len(mv) - 1) |->
                IF m = AGENT_IDX
                THEN {}
                ELSE populate_static_collisions(a, obj_pixels(l, mv[m + 1]),
                                                AgentObstaclePixels(l),
                                                PuzzleWidth(l), PuzzleHeight(l)) ] ]

LoadWallCollisionMap(l) ==
    LET mv == movables(l)
    IN  [ a \in ActionSet |->
            [ m \in 0 .. (Len(mv) - 1) |->
                IF m = AGENT_IDX
                THEN {}
                ELSE populate_static_collisions(a, obj_pixels(l, mv[m + 1]), obj_pixels(l, "w"),
                                                PuzzleWidth(l), PuzzleHeight(l)) ] ]

LoadMovableCollisionMap(l) ==
    LET mv == movables(l)
    IN  [ a \in ActionSet |->
            [ pusher \in 0 .. (Len(mv) - 1) |->
                [ pushee \in 0 .. (Len(mv) - 1) |->
                    IF pushee = AGENT_IDX
                    THEN {}
                    ELSE populate_dynamic_collisions(a, obj_pixels(l, mv[pusher + 1]),
                                                     obj_pixels(l, mv[pushee + 1])) ] ] ]

\* self._pushed_objects as the constructor leaves it.
InitialPushedObjects(num_movables) ==
    [ i \in 0 .. (num_movables - 1) |-> i = AGENT_IDX ]

(***************************************************************************)
(* BraindeadPushWorldPuzzle.__init__                                        *)
(***************************************************************************)
\* The attributes of a BraindeadPushWorldPuzzle after __init__; the layouts used
\* hold one "a" token and one goal token.
LoadBraindeadPuzzle(l) ==
    LET agent_position == CHOOSE p \in l.px["a"] : TRUE
        goal_position == CHOOSE p \in l.px["g1"] : TRUE
    IN  [ width |-> l.cols,
          height |-> l.rows,
          num_movables |-> 1,
          initial_state |-> [ i \in 0 .. 0 |-> agent_position ],
          goal_state |-> [ k \in 0 .. 0 |-> goal_position ],
          cells |-> [ i \in 0 .. 0 |-> subtract_from_points(l.px["a"], agent_position) ],
          wall_positions |-> {},
          agent_wall_positions |-> {},
          goal_position |-> goal_position ]

BraindeadAgentCollisionMap == [ a \in ActionSet |-> {} ]
BraindeadWallCollisionMap == [ a \in ActionSet |-> [ m \in 0 .. 0 |-> {} ] ]
BraindeadMovableCollisionMap == [ a \in ActionSet |-> [ i \in 0 .. 0 |-> [ j \in 0 .. 0 |-> {} ] ] ]

(***************************************************************************)
(* Transition engine: PushWorldPuzzle.get_next_state                        *)
(***************************************************************************)
\* As IsPushedBy, with only the agent able to push.
IsPushedBy_agent_only(action, st, movable_idx, obstacle_idx) ==
    /\ movable_idx = AGENT_IDX
    /\ Sub(st[movable_idx], st[obstacle_idx])
        \in movable_collision_map[action][movable_idx][obstacle_idx]

\* relative_pos in movable_collisions[obstacle_idx]
IsPushedBy(action, st, movable_idx, obstacle_idx) ==
    Sub(st[movable_idx], st[obstacle_idx])
        \in movable_collision_map[action][movable_idx][obstacle_idx]

\* As IsWallBlocked, with the wall test of a pushed movable left out.
IsWallBlocked_never(action, st, obstacle_idx) == FALSE

\* obstacle_pos in walls[obstacle_idx]
IsWallBlocked(action, st, obstacle_idx) ==
    st[obstacle_idx] \in wall_collision_map[action][obstacle_idx]

\* As ClearPushed, with the marker of the agent cleared too.
ClearPushed_agent_too(pushed) == [ i \in DOMAIN pushed |-> FALSE ]

\* As ClearPushed, with the markers left as they are.
ClearPushed_noop(pushed) == pushed

\* self._pushed_objects[1:] = False
ClearPushed(pushed) == [ i \in DOMAIN pushed |-> IF i >= 1 THEN FALSE ELSE pushed[i] ]

\* The for loop over obstacle_idx, from obstacle_idx on, for the popped movable_idx.
RECURSIVE ForObstacles(_, _, _, _, _, _)

\* As ForObstacles, with a pushed obstacle appended to the frontier twice.
ForObstacles_appends_twice(action, st, movable_idx, obstacle_idx, frontier, pushed) ==
    IF obstacle_idx >= puzzle.num_movables
    THEN [ blocked |-> FALSE, frontier |-> frontier, pushed |-> pushed ]
    ELSE IF pushed[obstacle_idx]
    THEN ForObstacles(action, st, movable_idx, obstacle_idx + 1, frontier, pushed)
    ELSE IF ~IsPushedBy(action, st, movable_idx, obstacle_idx)
    THEN ForObstacles(action, st, movable_idx, obstacle_idx + 1, frontier, pushed)
    ELSE IF IsWallBlocked(action, st, obstacle_idx)
    THEN [ blocked |-> TRUE, frontier |-> frontier, pushed |-> ClearPushed(pushed) ]
    ELSE ForObstacles(action, st, movable_idx, obstacle_idx + 1,
                      Append(Append(frontier, obstacle_idx), obstacle_idx),
                      [ pushed EXCEPT ![obstacle_idx] = TRUE ])

ForObstacles(action, st, movable_idx, obstacle_idx, frontier, pushed) ==
    IF obstacle_idx >= puzzle.num_movables
    THEN [ blocked |-> FALSE, frontier |-> frontier, pushed |-> pushed ]
    ELSE IF pushed[obstacle_idx]
    THEN ForObstacles(action, st, movable_idx, obstacle_idx + 1, frontier, pushed)
    ELSE IF ~IsPushedBy(action, st, movable_idx, obstacle_idx)
    THEN ForObstacles(action, st, movable_idx, obstacle_idx + 1, frontier, pushed)
    ELSE IF IsWallBlocked(action, st, obstacle_idx)
    THEN [ blocked |-> TRUE, frontier |-> frontier, pushed |-> ClearPushed(pushed) ]
    ELSE ForObstacles(action, st, movable_idx, obstacle_idx + 1,
                      Append(frontier, obstacle_idx),
                      [ pushed EXCEPT ![obstacle_idx] = TRUE ])

\* The frontier without its i-th element.
RemoveAt(frontier, i) == SubSeq(frontier, 1, i - 1) \o SubSeq(frontier, i + 1, Len(frontier))

RECURSIVE WhileFrontier(_, _, _, _)

\* As WhileFrontier, with the loop left after its first iteration.
WhileFrontier_one_iteration(action, st, frontier, pushed) ==
    IF frontier = <<>>
    THEN [ blocked |-> FALSE, frontier |-> frontier, pushed |-> pushed,
           popped |-> <<>>, placed |-> <<>> ]
    ELSE LET movable_idx == frontier[Len(frontier)]
             rest == RemoveAt(frontier, Len(frontier))
             r == ForObstacles(action, st, movable_idx, 1, rest, pushed)
         IN  [ blocked |-> r.blocked, frontier |-> <<>>, pushed |-> r.pushed,
               popped |-> <<movable_idx>>,
               placed |-> SubSeq(r.frontier, Len(rest) + 1, Len(r.frontier)) ]

\* The while loop over the frontier; frontier.pop() takes the last element.  popped
\* lists the indices in the order the iterations took them, placed the indices the
\* iterations appended to the frontier.
WhileFrontier(action, st, frontier, pushed) ==
    IF frontier = <<>>
    THEN [ blocked |-> FALSE, frontier |-> frontier, pushed |-> pushed,
           popped |-> <<>>, placed |-> <<>> ]
    ELSE LET movable_idx == frontier[Len(frontier)]
             rest == RemoveAt(frontier, Len(frontier))
             r == ForObstacles(action, st, movable_idx, 1, rest, pushed)
             appended == SubSeq(r.frontier, Len(rest) + 1, Len(r.frontier))
         IN  IF r.blocked
             THEN [ blocked |-> TRUE, frontier |-> r.frontier, pushed |-> r.pushed,
                    popped |-> <<movable_idx>>, placed |-> appended ]
             ELSE LET w == WhileFrontier(action, st, r.frontier, r.pushed)
                  IN  [ w EXCEPT !.popped = <<movable_idx>> \o w.popped,
                                 !.placed = appended \o w.placed ]

\* The outcomes of the loop when each iteration may take any element of the
\* frontier instead of the last one: whether the action is discarded, and the
\* markers the loop leaves.
RECURSIVE WhileFrontierAnyOrder(_, _, _, _)
WhileFrontierAnyOrder(action, st, frontier, pushed) ==
    IF frontier = <<>>
    THEN { [ blocked |-> FALSE, pushed |-> pushed ] }
    ELSE UNION { LET r == ForObstacles(action, st, frontier[i], 1, RemoveAt(frontier, i), pushed)
                 IN  IF r.blocked
                     THEN { [ blocked |-> TRUE, pushed |-> r.pushed ] }
                     ELSE WhileFrontierAnyOrder(action, st, r.frontier, r.pushed) :
                 i \in 1 .. Len(frontier) }

\* As BuildNextState, with a pushed movable displaced twice.
BuildNextState_pushed_twice(action, st, pushed) ==
    [ i \in DOMAIN st |->
        IF i = AGENT_IDX THEN Add(Displacement(action), st[i])
        ELSE IF pushed[i] THEN Add(Displacement(action), Add(Displacement(action), st[i]))
        ELSE st[i] ]

\* As BuildNextState, with only the agent displaced.
BuildNextState_agent_only(action, st, pushed) ==
    [ i \in DOMAIN st |->
        IF i = AGENT_IDX THEN Add(Displacement(action), st[i]) ELSE st[i] ]

\* As BuildNextState, with only the displaced objects kept in the result.
BuildNextState_displaced_only(action, st, pushed) ==
    [ i \in { j \in DOMAIN st : j = AGENT_IDX \/ pushed[j] } |->
        Add(Displacement(action), st[i]) ]

\* next_state as built after the loop from the pushed markers.
BuildNextState(action, st, pushed) ==
    [ i \in DOMAIN st |->
        IF i = AGENT_IDX \/ pushed[i] THEN Add(Displacement(action), st[i]) ELSE st[i] ]

\* As get_next_state, with the return missing on a transitive block, so that the
\* agent is displaced all the same.
get_next_state_partial(pushed, st, action) ==
    IF st[AGENT_IDX] \in agent_collision_map[action]
    THEN [ ret |-> st, pushed |-> pushed, path |-> "agent_blocked" ]
    ELSE LET r == WhileFrontier(action, st, <<AGENT_IDX>>, pushed)
         IN  IF r.blocked
             THEN [ ret |-> BuildNextState(action, st, r.pushed), pushed |-> r.pushed,
                    path |-> "transitive_block" ]
             ELSE [ ret |-> BuildNextState(action, st, r.pushed),
                    pushed |-> ClearPushed(r.pushed),
                    path |-> "moved" ]

\* As get_next_state, with the blocked path resetting the whole marker array.
get_next_state_blocked_resets(pushed, st, action) ==
    IF st[AGENT_IDX] \in agent_collision_map[action]
    THEN [ ret |-> st, pushed |-> [ i \in DOMAIN pushed |-> FALSE ],
           path |-> "agent_blocked" ]
    ELSE LET r == WhileFrontier(action, st, <<AGENT_IDX>>, pushed)
         IN  IF r.blocked
             THEN [ ret |-> st, pushed |-> r.pushed, path |-> "transitive_block" ]
             ELSE [ ret |-> BuildNextState(action, st, r.pushed),
                    pushed |-> ClearPushed(r.pushed),
                    path |-> "moved" ]

\* get_next_state on an instance whose marker array is pushed: the returned state,
\* the marker array afterwards and the return path taken.
get_next_state(pushed, st, action) ==
    IF st[AGENT_IDX] \in agent_collision_map[action]
    THEN [ ret |-> st, pushed |-> pushed, path |-> "agent_blocked" ]
    ELSE LET r == WhileFrontier(action, st, <<AGENT_IDX>>, pushed)
         IN  IF r.blocked
             THEN [ ret |-> st, pushed |-> r.pushed, path |-> "transitive_block" ]
             ELSE [ ret |-> BuildNextState(action, st, r.pushed),
                    pushed |-> ClearPushed(r.pushed),
                    path |-> "moved" ]

(***************************************************************************)
(* BraindeadPushWorldPuzzle.get_next_state                                  *)
(***************************************************************************)
\* As braindead_get_next_state, with the positions counted from 0.
braindead_get_next_state_zero_based(st, action) ==
    LET new_pos == Add(st[AGENT_IDX], Displacement(action))
    IN  IF /\ 0 <= new_pos[1] /\ new_pos[1] < puzzle.width
           /\ 0 <= new_pos[2] /\ new_pos[2] < puzzle.height
        THEN [ ret |-> [ i \in 0 .. 0 |-> new_pos ], path |-> "moved" ]
        ELSE [ ret |-> st, path |-> "out_of_bounds" ]

\* BraindeadPushWorldPuzzle.get_next_state
braindead_get_next_state(st, action) ==
    LET new_pos == Add(st[AGENT_IDX], Displacement(action))
    IN  IF /\ 1 <= new_pos[1] /\ new_pos[1] <= puzzle.width
           /\ 1 <= new_pos[2] /\ new_pos[2] <= puzzle.height
        THEN [ ret |-> [ i \in 0 .. 0 |-> new_pos ], path |-> "moved" ]
        ELSE [ ret |-> st, path |-> "out_of_bounds" ]

(***************************************************************************)
(* Goal evaluator and plan validation                                       *)
(***************************************************************************)
\* len(self._goal_state)
NumGoals == Cardinality(DOMAIN puzzle.goal_state)

\* The loop of count_achieved_goals over zip(state[1 : 1 + len(goal_state)], goal_state),
\* from the k-th pair on.
RECURSIVE CountLoop(_, _, _)
CountLoop(st, k, count) ==
    IF k >= NumGoals \/ (k + 1) \notin DOMAIN st
    THEN count
    ELSE CountLoop(st, k + 1, IF st[k + 1] = puzzle.goal_state[k] THEN count + 1 ELSE count)

\* As count_achieved_goals, with the counter starting at one.
count_achieved_goals_from_one(st) == CountLoop(st, 0, 1)

\* PushWorldPuzzle.count_achieved_goals
count_achieved_goals(st) == CountLoop(st, 0, 0)

\* As is_goal_state, with only the first goal compared.
is_goal_state_first_goal(st) ==
    \A k \in (DOMAIN puzzle.goal_state) \cap { 0 } : st[k + 1] = puzzle.goal_state[k]

\* PushWorldPuzzle.is_goal_state: state[1 : 1 + len(goal_state)] == goal_state
is_goal_state(st) ==
    \A k \in DOMAIN puzzle.goal_state : st[k + 1] = puzzle.goal_state[k]

\* BraindeadPushWorldPuzzle.is_goal_state
braindead_is_goal_state(st) == st[AGENT_IDX] = puzzle.goal_position

\* BraindeadPushWorldPuzzle.count_achieved_goals
braindead_count_achieved_goals(st) == IF braindead_is_goal_state(st) THEN 1 ELSE 0

\* The loop of PushWorldPuzzle.is_valid_plan from the i-th action of the plan on.
RECURSIVE ValidPlanLoop(_, _, _, _)
ValidPlanLoop(plan, i, st, pushed) ==
    IF i > Len(plan)
    THEN [ ret |-> is_goal_state(st), pushed |-> pushed ]
    ELSE IF is_goal_state(st)
    THEN [ ret |-> FALSE, pushed |-> pushed ]
    ELSE LET r == get_next_state(pushed, st, plan[i])
         IN  ValidPlanLoop(plan, i + 1, r.ret, r.pushed)

\* The loop with the test for an early goal left out.
RECURSIVE ReplayLoop(_, _, _, _)
ReplayLoop(plan, i, st, pushed) ==
    IF i > Len(plan)
    THEN [ ret |-> is_goal_state(st), pushed |-> pushed ]
    ELSE LET r == get_next_state(pushed, st, plan[i])
         IN  ReplayLoop(plan, i + 1, r.ret, r.pushed)

\* As is_valid_plan, with only the final state tested.
is_valid_plan_final_only(pushed, plan) ==
    ReplayLoop(plan, 1, puzzle.initial_state, pushed)

\* PushWorldPuzzle.is_valid_plan on an instance whose marker array is pushed.
is_valid_plan(pushed, plan) ==
    ValidPlanLoop(plan, 1, puzzle.initial_state, pushed)

\* The loop of BraindeadPushWorldPuzzle.is_valid_plan.
RECURSIVE BraindeadValidPlanLoop(_, _, _)
BraindeadValidPlanLoop(plan, i, st) ==
    IF i > Len(plan)
    THEN braindead_is_goal_state(st)
    ELSE IF braindead_is_goal_state(st)
    THEN TRUE
    ELSE BraindeadValidPlanLoop(plan, i + 1, braindead_get_next_state(st, plan[i]).ret)

\* The loop as the parent class has it: an early goal makes the plan invalid.
RECURSIVE BraindeadStrictPlanLoop(_, _, _)
BraindeadStrictPlanLoop(plan, i, st) ==
    IF i > Len(plan)
    THEN braindead_is_goal_state(st)
    ELSE IF braindead_is_goal_state(st)
    THEN FALSE
    ELSE BraindeadStrictPlanLoop(plan, i + 1, braindead_get_next_state(st, plan[i]).ret)

\* As braindead_is_valid_plan, with the parent's treatment of an early goal.
braindead_is_valid_plan_strict(plan) ==
    BraindeadStrictPlanLoop(plan, 1, puzzle.initial_state)

\* BraindeadPushWorldPuzzle.is_valid_plan
braindead_is_valid_plan(plan) ==
    BraindeadValidPlanLoop(plan, 1, puzzle.initial_state)

(***************************************************************************)
(* Puzzle files used                                                        *)
(***************************************************************************)
\* a  m1 .
\* .  .  .
\* .  .  .
ScenarioA ==
    [ cols |-> 3, rows |-> 3, ids |-> << "a", "m1" >>,
      px |-> [ a |-> { <<1, 1>> }, m1 |-> { <<2, 1>> } ] ]

\* a  m1 w
\* .  .  .
\* .  .  .
ScenarioWall ==
    [ cols |-> 3, rows |-> 3, ids |-> << "a", "m1", "w" >>,
      px |-> [ a |-> { <<1, 1>> }, m1 |-> { <<2, 1>> }, w |-> { <<3, 1>> } ] ]

\* .  .  .     .  .
\* a  m1 m2+g1 g2 .
\* aw .  .     .  .
ChainLayout ==
    [ cols |-> 5, rows |-> 3, ids |-> << "a", "m1", "m2", "g1", "g2", "aw" >>,
      px |-> [ a |-> { <<1, 2>> }, m1 |-> { <<2, 2>> }, m2 |-> { <<3, 2>> },
               g1 |-> { <<3, 2>> }, g2 |-> { <<4, 2>> }, aw |-> { <<1, 3>> } ] ]

\* .  .  .  .  aw
\* .  a  a  .  .
\* .  .  m1 m1 .
\* .  g1 m3 m1 .
\* .  .  .  .  w
ShapeLayout ==
    [ cols |-> 5, rows |-> 5, ids |-> << "aw", "a", "m1", "g1", "m3", "w" >>,
      px |-> [ a |-> { <<2, 2>>, <<3, 2>> }, aw |-> { <<5, 1>> },
               m1 |-> { <<3, 3>>, <<4, 3>>, <<4, 4>> }, g1 |-> { <<2, 4>> },
               m3 |-> { <<3, 4>> }, w |-> { <<5, 5>> } ] ]

StandardLayouts == { ScenarioA, ScenarioWall, ChainLayout, ShapeLayout }

\* a  .  .
\* .  .  g1
BraindeadWide ==
    [ cols |-> 3, rows |-> 2, ids |-> << "a", "g1" >>,
      px |-> [ a |-> { <<1, 1>> }, g1 |-> { <<3, 2>> } ] ]

\* .
\* a
\* g1
BraindeadColumn ==
    [ cols |-> 1, rows |-> 3, ids |-> << "a", "g1" >>,
      px |-> [ a |-> { <<1, 2>> }, g1 |-> { <<1, 3>> } ] ]

BraindeadLayouts == { BraindeadWide, BraindeadColumn }

(***************************************************************************)
(* Sequential use of one puzzle instance                                    *)
(***************************************************************************)
NoCall == [ op |-> "none" ]

\* The puzzle is used directly, not through a PushWorldEnv.
NoEnv == [ created |-> FALSE ]

\* No folder has been looked at.
NoFolders == [ given |-> FALSE ]

Threads == { 1, 2 }

\* A thread that is not inside get_next_state and holds the state cur.
IdleThread(cur) ==
    [ pc |-> "idle", cur |-> cur, calls |-> 0, state |-> cur, action |-> 0,
      frontier |-> <<>>, movable_idx |-> 0, obstacle_idx |-> 0, next_state |-> cur,
      i |-> 0, ret |-> cur ]

InitStandard ==
    /\ kind = "standard"
    /\ layout \in StandardLayouts
    /\ puzzle = LoadPuzzle(layout)
    /\ agent_collision_map = LoadAgentCollisionMap(layout)
    /\ wall_collision_map = LoadWallCollisionMap(layout)
    /\ movable_collision_map = LoadMovableCollisionMap(layout)

InitBraindead ==
    /\ kind = "braindead"
    /\ layout \in BraindeadLayouts
    /\ puzzle = LoadBraindeadPuzzle(layout)
    /\ agent_collision_map = BraindeadAgentCollisionMap
    /\ wall_collision_map = BraindeadWallCollisionMap
    /\ movable_collision_map = BraindeadMovableCollisionMap

Init ==
    /\ InitStandard \/ InitBraindead
    /\ pushed_objects = InitialPushedObjects(puzzle.num_movables)
    /\ state = puzzle.initial_state
    /\ call = NoCall
    /\ outcomes = {}
    /\ threads = [ t \in Threads |-> IdleThread(puzzle.initial_state) ]
    /\ env = NoEnv
    /\ folders = NoFolders

\* state = puzzle.get_next_state(state, action) on a PushWorldPuzzle
GetNextState(action) ==
    /\ kind = "standard"
    /\ LET r == get_next_state(pushed_objects, state, action)
       IN  /\ state' = r.ret
           /\ pushed_objects' = r.pushed
           /\ call' = [ op |-> "get_next_state", state |-> state, action |-> action,
                        ret |-> r.ret, path |-> r.path ]
           /\ outcomes' = outcomes \cup { r.path }
    /\ UNCHANGED <<folders, env, kind, layout, puzzle, agent_collision_map, wall_collision_map,
                   movable_collision_map, threads>>

\* state = puzzle.get_next_state(state, action) on a BraindeadPushWorldPuzzle
BraindeadGetNextState(action) ==
    /\ kind = "braindead"
    /\ LET r == braindead_get_next_state(state, action)
       IN  /\ state' = r.ret
           /\ call' = [ op |-> "get_next_state", state |-> state, action |-> action,
                        ret |-> r.ret, path |-> r.path ]
           /\ outcomes' = outcomes \cup { r.path }
    /\ UNCHANGED <<folders, env, kind, layout, puzzle, agent_collision_map, wall_collision_map,
                   movable_collision_map, pushed_objects, threads>>

Next ==
    \/ \E action \in ActionSet : GetNextState(action)
    \/ \E action \in ActionSet : BraindeadGetNextState(action)

Spec == Init /\ [][Next]_vars

(***************************************************************************)
(* Construction from a file.  A file is a sequence of rows, a row the       *)
(* sequence of its whitespace-separated tokens, and a token the sequence    *)
(* of the lower-cased identifiers it joins with "+".                        *)
(***************************************************************************)
RECURSIVE Concat(_)
Concat(ss) == IF ss = <<>> THEN <<>> ELSE Head(ss) \o Concat(Tail(ss))

\* The sequence s with only the first occurrence of each element kept.
RECURSIVE FirstOccurrences(_, _)
FirstOccurrences(s, seen) ==
    IF s = <<>> THEN <<>>
    ELSE IF Head(s) \in seen THEN FirstOccurrences(Tail(s), seen)
    ELSE <<Head(s)>> \o FirstOccurrences(Tail(s), seen \cup { Head(s) })

\* The keys of obj_pixels after the file was read, in insertion order.
ParsedIds(file) ==
    LET written(elem_id) == elem_id # "."
    IN  FirstOccurrences(SelectSeq(Concat(Concat(file)), written), {})

\* obj_pixels after the file was read.
ParsedPixels(file) ==
    [ elem_id \in Range(ParsedIds(file)) |->
        UNION { { <<x, y>> : x \in { xx \in 1 .. Len(file[y]) : elem_id \in Range(file[y][xx]) } } :
                y \in 1 .. Len(file) } ]

\* The layout read from a file; x and y are the last values of the loop variables.
ParseFile(file) ==
    [ cols |-> Len(file[Len(file)]), rows |-> Len(file),
      ids |-> ParsedIds(file), px |-> ParsedPixels(file) ]

\* As LoadError, without the comparison of the row lengths.
LoadError_no_row_check(file, optimized) ==
    IF "a" \notin Range(ParsedIds(file))
    THEN "ValueError"
    ELSE IF \E elem_id \in Range(ParsedIds(file)) :
                IsGoalId(elem_id) /\ MovableIdOf(elem_id) \notin Range(ParsedIds(file))
    THEN (IF optimized THEN "KeyError" ELSE "AssertionError")
    ELSE "none"

\* The exception __init__ raises on a file, "none" if it returns.  The test for the
\* movable of a goal is an assert statement: when the interpreter runs with
\* assertions disabled (optimized), the missing movable is appended to movables and
\* object_positions[elem_id] raises KeyError.
LoadError(file, optimized) ==
    IF \E y \in 2 .. Len(file) : Len(file[y]) # Len(file[1])
    THEN "ValueError"
    ELSE IF "a" \notin Range(ParsedIds(file))
    THEN "ValueError"
    ELSE IF \E elem_id \in Range(ParsedIds(file)) :
                IsGoalId(elem_id) /\ MovableIdOf(elem_id) \notin Range(ParsedIds(file))
    THEN (IF optimized THEN "KeyError" ELSE "AssertionError")
    ELSE "none"

\* m10  m1+g2 .
\* a    m2    g10
\* .    .     .
SortFile ==
    << << <<"m10">>, <<"m1", "g2">>, <<".">> >>,
       << <<"a">>, <<"m2">>, <<"g10">> >>,
       << <<".">>, <<".">>, <<".">> >> >>

\* The file of ScenarioA.
ScenarioAFile ==
    << << <<"a">>, <<"m1">>, <<".">> >>,
       << <<".">>, <<".">>, <<".">> >>,
       << <<".">>, <<".">>, <<".">> >> >>

\* a  m1 .
\* .  .
RaggedFile ==
    << << <<"a">>, <<"m1">>, <<".">> >>,
       << <<".">>, <<".">> >> >>

\* m1 .
\* g1 .
NoAgentFile ==
    << << <<"m1">>, <<".">> >>,
       << <<"g1">>, <<".">> >> >>

\* a  g1
\* m2 .
OrphanGoalFile ==
    << << <<"a">>, <<"g1">> >>,
       << <<"m2">>, <<".">> >> >>

\* .  g2
\* m2
RaggedNoAgentFile ==
    << << <<".">>, <<"g2">> >>,
       << <<"m2">> >> >>

Files == { SortFile, ScenarioAFile, RaggedFile, NoAgentFile, OrphanGoalFile, RaggedNoAgentFile }

\* No puzzle object.
NoPuzzle == [ loaded |-> FALSE ]

InitLoad ==
    /\ kind = "unloaded"
    /\ layout = [ cols |-> 0, rows |-> 0, ids |-> <<>>, px |-> <<>> ]
    /\ puzzle = NoPuzzle
    /\ agent_collision_map = <<>>
    /\ wall_collision_map = <<>>
    /\ movable_collision_map = <<>>
    /\ pushed_objects = <<>>
    /\ state = <<>>
    /\ call = NoCall
    /\ outcomes = {}
    /\ threads = <<>>
    /\ env = NoEnv
    /\ folders = NoFolders

\* puzzle = PushWorldPuzzle(file_path)
LoadFile(file, optimized) ==
    /\ kind = "unloaded"
    /\ LET raised == LoadError(file, optimized)
           l == ParseFile(file)
       IN  /\ call' = [ op |-> "load", file |-> file, raised |-> raised ]
           /\ IF raised # "none"
              THEN /\ kind' = "failed"
                   /\ UNCHANGED <<layout, puzzle, agent_collision_map, wall_collision_map,
                                  movable_collision_map, pushed_objects, state, threads>>
              ELSE /\ kind' = "standard"
                   /\ layout' = l
                   /\ puzzle' = LoadPuzzle(l)
                   /\ agent_collision_map' = LoadAgentCollisionMap(l)
                   /\ wall_collision_map' = LoadWallCollisionMap(l)
                   /\ movable_collision_map' = LoadMovableCollisionMap(l)
                   /\ pushed_objects' = InitialPushedObjects(LoadPuzzle(l).num_movables)
                   /\ state' = LoadPuzzle(l).initial_state
                   /\ threads' = [ t \in Threads |-> IdleThread(LoadPuzzle(l).initial_state) ]
    /\ UNCHANGED <<outcomes, env, folders>>

NextLoad ==
    \/ \E file \in Files, optimized \in BOOLEAN : LoadFile(file, optimized)
    \/ \E action \in ActionSet : GetNextState(action)

SpecLoad == InitLoad /\ [][NextLoad]_vars

(***************************************************************************)
(* Calls of get_next_state with an action outside 0..3.  The method does    *)
(* not test the action; it indexes three lists and one array of length      *)
(* NUM_ACTIONS with it, and Python counts a negative index from the end.    *)
(***************************************************************************)
\* Whether a sequence of length n accepts the index i, and the element it selects.
PyIndexable(n, i) == (0 - n) <= i /\ i < n
PyIndex(n, i) == IF i < 0 THEN i + n ELSE i

OutOfRangeActions == ((0 - (NUM_ACTIONS + 1)) .. (NUM_ACTIONS + 1)) \ ActionSet

\* get_next_state for any integer action: IndexError at line 365, or the call with
\* the action the index selects.
get_next_state_any(pushed, st, action) ==
    IF ~PyIndexable(NUM_ACTIONS, action)
    THEN [ raised |-> "IndexError", ret |-> st, pushed |-> pushed, path |-> "raised" ]
    ELSE LET r == get_next_state(pushed, st, PyIndex(NUM_ACTIONS, action))
         IN  [ raised |-> "none", ret |-> r.ret, pushed |-> r.pushed, path |-> r.path ]

\* puzzle.get_next_state(state, action) with an action outside 0..3; the caller
\* keeps its state when the call raises.
GetNextStateOutOfRange(action) ==
    /\ kind = "standard"
    /\ LET r == get_next_state_any(pushed_objects, state, action)
       IN  /\ state' = r.ret
           /\ pushed_objects' = r.pushed
           /\ call' = [ op |-> "get_next_state_out_of_range", state |-> state,
                        action |-> action, raised |-> r.raised, ret |-> r.ret,
                        path |-> r.path ]
           /\ outcomes' = IF r.raised = "none" THEN outcomes \cup { r.path } ELSE outcomes
    /\ UNCHANGED <<folders, env, kind, layout, puzzle, agent_collision_map, wall_collision_map,
                   movable_collision_map, threads>>

UsageLayouts == { ScenarioA, ScenarioWall }

InitUsage == Init /\ layout \in UsageLayouts

NextUsage ==
    \/ \E action \in ActionSet : GetNextState(action)
    \/ \E action \in OutOfRangeActions : GetNextStateOutOfRange(action)

SpecUsage == InitUsage /\ [][NextUsage]_vars

(***************************************************************************)
(* Plan validation on a loaded puzzle                                       *)
(***************************************************************************)
\* The longest plan tried.
MaxPlanLen == 3

Plans == UNION { [ 1 .. n -> ActionSet ] : n \in 0 .. MaxPlanLen }

\* puzzle.is_valid_plan(plan) on a PushWorldPuzzle
IsValidPlan(plan) ==
    /\ kind = "standard"
    /\ LET r == is_valid_plan(pushed_objects, plan)
       IN  /\ pushed_objects' = r.pushed
           /\ call' = [ op |-> "is_valid_plan", plan |-> plan, ret |-> r.ret ]
    /\ UNCHANGED <<folders, env, kind, layout, puzzle, agent_collision_map, wall_collision_map,
                   movable_collision_map, state, outcomes, threads>>

\* puzzle.is_valid_plan(plan) on a BraindeadPushWorldPuzzle
BraindeadIsValidPlan(plan) ==
    /\ kind = "braindead"
    /\ call' = [ op |-> "is_valid_plan", plan |-> plan,
                 ret |-> braindead_is_valid_plan(plan) ]
    /\ UNCHANGED <<folders, env, kind, layout, puzzle, agent_collision_map, wall_collision_map,
                   movable_collision_map, pushed_objects, state, outcomes, threads>>

NextPlan ==
    \/ \E plan \in Plans : IsValidPlan(plan)
    \/ \E plan \in Plans : BraindeadIsValidPlan(plan)

SpecPlan == Init /\ [][NextPlan]_vars

(***************************************************************************)
(* Two threads calling get_next_state on the same PushWorldPuzzle.  Each    *)
(* thread has its own frame (state, action, frontier, loop indices,         *)
(* next_state); self._pushed_objects and the tables belong to the instance. *)
(* A step is one pass through a loop head or one loop iteration.            *)
(***************************************************************************)
\* The number of calls each thread makes.
MaxCalls == 1

ConcurrentLayouts == { ScenarioA, ChainLayout }

InitConcurrent ==
    /\ InitStandard
    /\ layout \in ConcurrentLayouts
    /\ pushed_objects = InitialPushedObjects(puzzle.num_movables)
    /\ state = puzzle.initial_state
    /\ call = NoCall
    /\ outcomes = {}
    /\ threads = [ t \in Threads |-> IdleThread(puzzle.initial_state) ]
    /\ env = NoEnv
    /\ folders = NoFolders

ConcurrentFrame == <<folders, env, kind, layout, puzzle, agent_collision_map, wall_collision_map,
                     movable_collision_map, state, call, outcomes>>

\* Lines 363-369: the call, the agent test and the seeding of the frontier.
ThreadCall(t, action) ==
    LET th == threads[t]
    IN  /\ th.pc = "idle"
        /\ th.calls < MaxCalls
        /\ threads' = [ threads EXCEPT ![t] =
              IF th.cur[AGENT_IDX] \in agent_collision_map[action]
              THEN [ th EXCEPT !.pc = "done", !.calls = @ + 1, !.state = th.cur,
                               !.action = action, !.ret = th.cur ]
              ELSE [ th EXCEPT !.pc = "while", !.calls = @ + 1, !.state = th.cur,
                               !.action = action, !.frontier = <<AGENT_IDX>> ] ]
        /\ UNCHANGED pushed_objects
        /\ UNCHANGED ConcurrentFrame

\* Lines 371-374 and, when the frontier is empty, 396-398.
ThreadWhile(t) ==
    LET th == threads[t]
    IN  /\ th.pc = "while"
        /\ threads' = [ threads EXCEPT ![t] =
              IF th.frontier = <<>>
              THEN [ th EXCEPT !.pc = "build", !.i = 1,
                               !.next_state = [ th.state EXCEPT ![AGENT_IDX] =
                                    Add(Displacement(th.action), th.state[AGENT_IDX]) ] ]
              ELSE [ th EXCEPT !.pc = "for",
                               !.movable_idx = th.frontier[Len(th.frontier)],
                               !.frontier = SubSeq(th.frontier, 1, Len(th.frontier) - 1),
                               !.obstacle_idx = 1 ] ]
        /\ UNCHANGED pushed_objects
        /\ UNCHANGED ConcurrentFrame

\* Lines 376-394: one iteration of the loop over obstacle_idx.
ThreadFor(t) ==
    LET th == threads[t]
        k == th.obstacle_idx
    IN  /\ th.pc = "for"
        /\ IF k >= puzzle.num_movables
           THEN /\ threads' = [ threads EXCEPT ![t] = [ th EXCEPT !.pc = "while" ] ]
                /\ UNCHANGED pushed_objects
           ELSE IF pushed_objects[k] \/ ~IsPushedBy(th.action, th.state, th.movable_idx, k)
           THEN /\ threads' = [ threads EXCEPT ![t] = [ th EXCEPT !.obstacle_idx = k + 1 ] ]
                /\ UNCHANGED pushed_objects
           ELSE IF IsWallBlocked(th.action, th.state, k)
           THEN /\ pushed_objects' = ClearPushed(pushed_objects)
                /\ threads' = [ threads EXCEPT ![t] =
                                  [ th EXCEPT !.pc = "done", !.ret = th.state ] ]
           ELSE /\ pushed_objects' = [ pushed_objects EXCEPT ![k] = TRUE ]
                /\ threads' = [ threads EXCEPT ![t] =
                                  [ th EXCEPT !.obstacle_idx = k + 1,
                                              !.frontier = Append(th.frontier, k) ] ]
        /\ UNCHANGED ConcurrentFrame

\* Lines 399-406: one iteration of the loop that builds next_state, or the return.
ThreadBuild(t) ==
    LET th == threads[t]
    IN  /\ th.pc = "build"
        /\ IF th.i >= puzzle.num_movables
           THEN /\ threads' = [ threads EXCEPT ![t] =
                                  [ th EXCEPT !.pc = "done", !.ret = th.next_state ] ]
                /\ UNCHANGED pushed_objects
           ELSE IF pushed_objects[th.i]
           THEN /\ threads' = [ threads EXCEPT ![t] =
                                  [ th EXCEPT !.i = @ + 1,
                                              !.next_state[th.i] =
                                                  Add(Displacement(th.action), th.state[th.i]) ] ]
                /\ pushed_objects' = [ pushed_objects EXCEPT ![th.i] = FALSE ]
           ELSE /\ threads' = [ threads EXCEPT ![t] =
                                  [ th EXCEPT !.i = @ + 1, !.next_state[th.i] = th.state[th.i] ] ]
                /\ UNCHANGED pushed_objects
        /\ UNCHANGED ConcurrentFrame

\* The caller takes the returned state as its current state.
ThreadReturn(t) ==
    LET th == threads[t]
    IN  /\ th.pc = "done"
        /\ threads' = [ threads EXCEPT ![t] = [ th EXCEPT !.pc = "idle", !.cur = th.ret ] ]
        /\ UNCHANGED pushed_objects
        /\ UNCHANGED ConcurrentFrame

NextConcurrent ==
    \E t \in Threads :
        \/ \E action \in ActionSet : ThreadCall(t, action)
        \/ ThreadWhile(t)
        \/ ThreadFor(t)
        \/ ThreadBuild(t)
        \/ ThreadReturn(t)

SpecConcurrent == InitConcurrent /\ [][NextConcurrent]_vars

(***************************************************************************)
(* Geometry of a state, read from the shapes and not from the tables        *)
(***************************************************************************)
\* The cells that movable i occupies in state st.
Cells(st, i) == { Add(st[i], c) : c \in puzzle.cells[i] }

\* The cells of the wall (border included) and the cells written "aw" in the file.
WallCells == GlobalPixels(layout, "w")
AuthoredAgentWallCells == IF "aw" \in DOMAIN layout.px THEN layout.px["aw"] ELSE {}

\* Moving m by the displacement of action makes it enter a cell of k.
Enters(st, action, m, k) ==
    ({ Add(c, Displacement(action)) : c \in Cells(st, m) } \cap Cells(st, k)) # {}

\* The least set of indices that holds the agent and every movable entered by a member.
RECURSIVE PushClosureFrom(_, _, _)
PushClosureFrom(st, action, S) ==
    LET T == S \cup { k \in (DOMAIN st) \ { AGENT_IDX } : \E m \in S : Enters(st, action, m, k) }
    IN  IF T = S THEN S ELSE PushClosureFrom(st, action, T)

PushClosure(st, action) == PushClosureFrom(st, action, { AGENT_IDX })

NoOverlapIn(st) ==
    /\ \A i, j \in DOMAIN st : i # j => Cells(st, i) \cap Cells(st, j) = {}
    /\ \A i \in DOMAIN st : Cells(st, i) \cap WallCells = {}
    /\ Cells(st, AGENT_IDX) \cap AuthoredAgentWallCells = {}

StandardCall == kind = "standard" /\ call.op = "get_next_state"

State1(p0) == [ i \in { 0 } |-> p0 ]
State2(p0, p1) == [ i \in 0 .. 1 |-> IF i = 0 THEN p0 ELSE p1 ]

(***************************************************************************)
(* Properties                                                               *)
(***************************************************************************)
\* C1: no-overlap invariant.  In every state reachable by get_next_state from the
\* initial state of a valid puzzle, no two movables (agent included) share a cell,
\* no cell of a movable is a wall cell (border included), and no agent cell is an
\* agent-wall cell.
C1_NoOverlap == kind = "standard" => NoOverlapIn(state)

\* A push has happened: the last call moved some movable other than the agent.
C1_Witness ==
    /\ StandardCall
    /\ call.path = "moved"
    /\ \E i \in (DOMAIN call.state) \ { AGENT_IDX } : call.ret[i] # call.state[i]

\* C2: atomic transitive block.  When the agent is free to move and some movable of
\* the push chain is wall-blocked for the action, get_next_state returns the input
\* state, unchanged at every index.
C2_AtomicTransitiveBlock ==
    ( /\ StandardCall
      /\ call.state[AGENT_IDX] \notin agent_collision_map[call.action]
      /\ \E k \in PushClosure(call.state, call.action) \ { AGENT_IDX } :
            call.state[k] \in wall_collision_map[call.action][k] )
    => (call.ret = call.state /\ state = call.state)

\* A chain was blocked behind its first movable: the blocked movable is not the one
\* the agent touches, so an earlier movable had already been marked pushed.
C2_Witness ==
    /\ StandardCall
    /\ call.path = "transitive_block"
    /\ \E k \in PushClosure(call.state, call.action) \ { AGENT_IDX } :
          /\ call.state[k] \in wall_collision_map[call.action][k]
          /\ ~Enters(call.state, call.action, AGENT_IDX, k)

\* C3: a successful push moves exactly the push closure.  When the agent is not
\* blocked and no movable of the closure is wall-blocked, every index of the closure
\* moves by the unit displacement of the action and every other index keeps its position.
C3_MovesExactlyClosure ==
    ( /\ StandardCall
      /\ call.state[AGENT_IDX] \notin agent_collision_map[call.action]
      /\ \A k \in PushClosure(call.state, call.action) \ { AGENT_IDX } :
            call.state[k] \notin wall_collision_map[call.action][k] )
    => /\ DOMAIN call.ret = DOMAIN call.state
       /\ \A i \in DOMAIN call.state :
            call.ret[i] = IF i \in PushClosure(call.state, call.action)
                          THEN Add(call.state[i], Displacement(call.action))
                          ELSE call.state[i]

\* A chain of two movables in line with the agent was moved by one call.
C3_Witness ==
    /\ StandardCall
    /\ call.path = "moved"
    /\ Cardinality(PushClosure(call.state, call.action)) >= 3
    /\ \E k \in PushClosure(call.state, call.action) \ { AGENT_IDX } :
          ~Enters(call.state, call.action, AGENT_IDX, k)

\* C4: idempotence under blocking.  A call made with the agent's position in
\* agentBlocked[action] returns the input state and changes neither the pushed
\* markers nor any collision table.
C4_BlockedIsNoOp ==
    [][ ( /\ kind = "standard"
          /\ call' # call
          /\ call'.op = "get_next_state"
          /\ call'.state = state
          /\ state[AGENT_IDX] \in agent_collision_map[call'.action] )
        => /\ call'.ret = state
           /\ state' = state
           /\ pushed_objects' = pushed_objects
           /\ agent_collision_map' = agent_collision_map
           /\ wall_collision_map' = wall_collision_map
           /\ movable_collision_map' = movable_collision_map ]_vars

\* A call was made while the agent was blocked.
C4_Witness ==
    /\ StandardCall
    /\ call.state[AGENT_IDX] \in agent_collision_map[call.action]
    /\ call.path = "agent_blocked"

\* C5: history independence.  After any sequence of calls, a call on this instance
\* returns what the same call returns on a freshly loaded instance, whose markers
\* are as the constructor left them.
C5_HistoryIndependent ==
    kind = "standard" =>
        \A s \in { state, puzzle.initial_state } : \A action \in ActionSet :
            get_next_state(pushed_objects, s, action).ret
                = get_next_state(InitialPushedObjects(puzzle.num_movables), s, action).ret

\* The instance has served calls of all three outcomes, the last one a push.
C5_Witness ==
    /\ StandardCall
    /\ outcomes = { "agent_blocked", "transitive_block", "moved" }
    /\ \E i \in (DOMAIN call.state) \ { AGENT_IDX } : call.ret[i] # call.state[i]

\* C9: Scenario A.  In the 3x3 puzzle with the agent at (1,1) and a movable at (2,1),
\* RIGHT from the initial state puts the agent at (2,1) and the movable at (3,1).
C9_ScenarioA ==
    (kind = "standard" /\ layout = ScenarioA) =>
        /\ puzzle.initial_state = State2(<<1, 1>>, <<2, 1>>)
        /\ ( (call.op = "get_next_state" /\ call.state = puzzle.initial_state
                /\ call.action = RIGHT)
             => call.ret = State2(<<2, 1>>, <<3, 1>>) )

C9_Witness ==
    /\ StandardCall
    /\ layout = ScenarioA
    /\ call.state = puzzle.initial_state
    /\ call.action = RIGHT
    /\ state = call.ret

\* C10 as stated: in the layout of Scenario A, where (4,1) is a wall cell, RIGHT
\* from the initial state leaves the agent and the movable where they were.
C10_Original ==
    ( /\ StandardCall
      /\ layout = ScenarioA
      /\ <<4, 1>> \in puzzle.wall_positions
      /\ call.state = puzzle.initial_state
      /\ call.action = RIGHT )
    => call.ret = call.state

\* C10, amended: with the wall cell at (3,1), directly right of the movable, RIGHT
\* from the initial state leaves the agent at (1,1) and the movable at (2,1).
C10_ScenarioWallBlocks ==
    (kind = "standard" /\ layout = ScenarioWall) =>
        /\ puzzle.initial_state = State2(<<1, 1>>, <<2, 1>>)
        /\ <<3, 1>> \in puzzle.wall_positions
        /\ ( (call.op = "get_next_state" /\ call.state = puzzle.initial_state
                /\ call.action = RIGHT)
             => (call.ret = State2(<<1, 1>>, <<2, 1>>) /\ call.path = "transitive_block") )

C10_Witness ==
    /\ StandardCall
    /\ layout = ScenarioWall
    /\ call.state = puzzle.initial_state
    /\ call.action = RIGHT
    /\ state = puzzle.initial_state

\* The state after the first k actions of the plan, replayed from the initial state
\* on an instance with clean markers.
RECURSIVE Replay(_, _)
Replay(plan, k) ==
    IF k = 0
    THEN puzzle.initial_state
    ELSE get_next_state(InitialPushedObjects(puzzle.num_movables),
                        Replay(plan, k - 1), plan[k]).ret

RECURSIVE BraindeadReplay(_, _)
BraindeadReplay(plan, k) ==
    IF k = 0
    THEN puzzle.initial_state
    ELSE braindead_get_next_state(BraindeadReplay(plan, k - 1), plan[k]).ret

\* C7: standard plan validity.  is_valid_plan(plan) is true iff the replay ends in a
\* goal state and no earlier state of the replay, the initial state included, is a
\* goal state; the empty plan is valid iff the initial state is a goal state.
C7_StandardPlanValidity ==
    (kind = "standard" /\ call.op = "is_valid_plan") =>
        call.ret = ( /\ is_goal_state(Replay(call.plan, Len(call.plan)))
                     /\ \A k \in 0 .. (Len(call.plan) - 1) :
                            ~is_goal_state(Replay(call.plan, k)) )

\* A plan of a puzzle with goals that is at the goal before its last action and
\* again after it was found invalid.
C7_Witness ==
    /\ kind = "standard"
    /\ call.op = "is_valid_plan"
    /\ DOMAIN puzzle.goal_state # {}
    /\ ~is_goal_state(puzzle.initial_state)
    /\ \E k \in 1 .. (Len(call.plan) - 1) : is_goal_state(Replay(call.plan, k))
    /\ is_goal_state(Replay(call.plan, Len(call.plan)))
    /\ call.ret = FALSE

\* C8: simplified-variant plan validity.  is_valid_plan(plan) is true iff some state
\* of the replay, from the initial state to the state after the last action, is a
\* goal state.
C8_BraindeadPlanValidity ==
    (kind = "braindead" /\ call.op = "is_valid_plan") =>
        call.ret = (\E k \in 0 .. Len(call.plan) :
                        braindead_is_goal_state(BraindeadReplay(call.plan, k)))

\* A plan that passes the goal before its last action and ends away from it was
\* found valid.
C8_Witness ==
    /\ kind = "braindead"
    /\ call.op = "is_valid_plan"
    /\ \E k \in 1 .. (Len(call.plan) - 1) :
          braindead_is_goal_state(BraindeadReplay(call.plan, k))
    /\ ~braindead_is_goal_state(BraindeadReplay(call.plan, Len(call.plan)))
    /\ call.ret = TRUE

\* C6: safe concurrent use.  When two get_next_state invocations on the same
\* instance are interleaved, each returns the state it would return when run alone
\* on an instance with clean markers.
C6_ConcurrentCallsIsolated ==
    \A t \in Threads :
        threads[t].pc = "done" =>
            threads[t].ret = get_next_state(InitialPushedObjects(puzzle.num_movables),
                                            threads[t].state, threads[t].action).ret

\* The cells movable i would occupy after moving by the displacement of action.
MovedCells(st, action, i) == { Add(c, Displacement(action)) : c \in Cells(st, i) }

\* C11: the agent wall blocks only the agent.  A call whose agent would enter an
\* agent-wall cell or a wall cell returns its input state; a transitive block
\* happens only when a movable of the push chain would enter a wall cell, so that a
\* pushed movable is never stopped by agent-wall cells.
C11_AgentWallBlocksOnlyAgent ==
    StandardCall =>
        /\ (MovedCells(call.state, call.action, AGENT_IDX)
                \cap (AuthoredAgentWallCells \cup WallCells)) # {}
           => (call.ret = call.state /\ call.path = "agent_blocked")
        /\ call.path = "transitive_block"
           => \E k \in PushClosure(call.state, call.action) \ { AGENT_IDX } :
                 (MovedCells(call.state, call.action, k) \cap WallCells) # {}

\* A movable was pushed onto an agent-wall cell.
C11_Witness ==
    /\ StandardCall
    /\ call.path = "moved"
    /\ \E k \in (DOMAIN call.state) \ { AGENT_IDX } :
          /\ call.ret[k] # call.state[k]
          /\ (Cells(call.ret, k) \cap AuthoredAgentWallCells) # {}

\* The unit displacement the action encoding gives to each action.
UnitDisplacement(action) ==
    CASE action = 0 -> <<-1, 0>>
      [] action = 1 -> <<1, 0>>
      [] action = 2 -> <<0, -1>>
      [] action = 3 -> <<0, 1>>

C13_OutOfRangeRejected ==
    call.op = "get_next_state_out_of_range" =>
        (call.raised # "none" /\ state = call.state)

\* count_achieved_goals and is_goal_state of the class of the loaded puzzle.
AchievedGoals(st) ==
    IF kind = "standard" THEN count_achieved_goals(st) ELSE braindead_count_achieved_goals(st)

IsGoal(st) ==
    IF kind = "standard" THEN is_goal_state(st) ELSE braindead_is_goal_state(st)

\* The number of indices i in [0, numGoals) with state[i+1] == goals[i].
MatchedGoals(st) ==
    Cardinality({ i \in 0 .. (NumGoals - 1) :
                    (i + 1) \in DOMAIN st /\ st[i + 1] = puzzle.goal_state[i] })

\* C14: goal bounds.  In both puzzle classes, 0 <= count_achieved_goals(state) <=
\* number of goals for every state.
C14_GoalBounds ==
    /\ 0 <= AchievedGoals(state)
    /\ AchievedGoals(state) <= NumGoals

\* A state with some but not all goals achieved was reached.
C14_Witness ==
    /\ StandardCall
    /\ NumGoals = 2
    /\ count_achieved_goals(state) = 1

\* C15 as stated, for every puzzle: count_achieved_goals(state) is the number of
\* indices i in [0, numGoals) with state[i+1] == goals[i], and is_goal_state(state)
\* holds iff the count equals the number of goals.
C15_Original ==
    /\ AchievedGoals(state) = MatchedGoals(state)
    /\ IsGoal(state) <=> (AchievedGoals(state) = NumGoals)

\* C15, amended: the count by indices is that of PushWorldPuzzle; in a
\* BraindeadPushWorldPuzzle, whose state holds the agent only, the count is 1 when
\* state[0] is the goal position and 0 otherwise.  In both classes is_goal_state
\* holds iff the count equals the number of goals.
C15_GoalEvaluatorConsistency ==
    /\ kind = "standard" => count_achieved_goals(state) = MatchedGoals(state)
    /\ kind = "braindead" =>
          braindead_count_achieved_goals(state)
              = (IF state[AGENT_IDX] = puzzle.goal_state[0] THEN 1 ELSE 0)
    /\ IsGoal(state) <=> (AchievedGoals(state) = NumGoals)

\* A puzzle with two goals was brought to its goal state.
C15_Witness ==
    /\ StandardCall
    /\ NumGoals = 2
    /\ is_goal_state(state)
    /\ count_achieved_goals(state) = 2

\* The position of an element as the file gives it: the least x and the least y
\* of its cells.
AuthoredPosition(elem_id) ==
    LET xs == { p[1] : p \in layout.px[elem_id] }
        ys == { p[2] : p \in layout.px[elem_id] }
    IN  << CHOOSE x \in xs : \A x2 \in xs : x <= x2, CHOOSE y \in ys : \A y2 \in ys : y <= y2 >>

AuthoredGoalIds == { elem_id \in DOMAIN layout.px : IsGoalId(elem_id) }
AuthoredMovableIds == { elem_id \in DOMAIN layout.px : IsMovableId(elem_id) }

\* C16: goal-movable association after load.  A loaded PushWorldPuzzle has the agent
\* at state index 0; the goals can be numbered so that goal_state[k] is the position
\* of goal g<id> and initial_state[k+1] the position of the movable m<id> of the same
\* id; the movables without a goal come after them, so
\* len(goal_state) <= len(initial_state) - 1.
C16_GoalMovableAssociation ==
    kind = "standard" =>
        /\ puzzle.initial_state[AGENT_IDX] = AuthoredPosition("a")
        /\ NumGoals = Cardinality(AuthoredGoalIds)
        /\ \E g \in [ DOMAIN puzzle.goal_state -> AuthoredGoalIds ] :
              /\ \A k1, k2 \in DOMAIN g : g[k1] = g[k2] => k1 = k2
              /\ \A k \in DOMAIN g :
                    /\ puzzle.goal_state[k] = AuthoredPosition(g[k])
                    /\ puzzle.initial_state[k + 1] = AuthoredPosition(MovableIdOf(g[k]))
        /\ \A i \in DOMAIN puzzle.initial_state :
              i > NumGoals =>
                  \E elem_id \in AuthoredMovableIds :
                      /\ \A goal_id \in AuthoredGoalIds : MovableIdOf(goal_id) # elem_id
                      /\ puzzle.initial_state[i] = AuthoredPosition(elem_id)
        /\ Cardinality(DOMAIN puzzle.initial_state) = 1 + Cardinality(AuthoredMovableIds)
        /\ NumGoals <= Cardinality(DOMAIN puzzle.initial_state) - 1

\* A file whose goals and movables are written in an order that is neither the
\* sorted one nor the one of the state was loaded.
C16_Witness ==
    /\ kind = "standard"
    /\ call.op = "load"
    /\ call.file = SortFile
    /\ NumGoals = 2
    /\ Cardinality(DOMAIN puzzle.initial_state) = 4

\* What the file shows: rows of different lengths, no agent, a goal without movable.
RowsDiffer(file) == \E y1, y2 \in DOMAIN file : Len(file[y1]) # Len(file[y2])
Written(file, elem_id) ==
    \E y \in DOMAIN file : \E x \in DOMAIN file[y] : elem_id \in Range(file[y][x])
GoalWithoutMovable(file) ==
    \E elem_id \in { "g1", "g10", "g2" } :
        Written(file, elem_id) /\ ~Written(file, MovableIdOf(elem_id))

\* C18: load-time failures.  Constructing a PushWorldPuzzle raises an exception, and
\* produces no puzzle object, when two rows of the grid have different token counts,
\* when no "a" identifier is present, or when a goal g<k> is declared and no m<k>
\* identifier exists.
C18_LoadFailures ==
    call.op = "load" =>
        ( (RowsDiffer(call.file) \/ ~Written(call.file, "a") \/ GoalWithoutMovable(call.file))
            => (call.raised # "none" /\ kind = "failed" /\ puzzle = NoPuzzle) )

\* A file with an agent, rows of one length and a goal without movable was refused.
C18_Witness ==
    /\ call.op = "load"
    /\ GoalWithoutMovable(call.file)
    /\ ~RowsDiffer(call.file)
    /\ Written(call.file, "a")
    /\ call.raised # "none"
    /\ kind = "failed"

\* C17: fixed state length.  Every state returned by get_next_state, on every return
\* path (agent blocked, transitive block, successful move) and in both puzzle
\* variants, has the same length as the initial state of the puzzle.
C17_FixedStateLength ==
    call.op = "get_next_state" =>
        /\ call.path \in { "agent_blocked", "transitive_block", "moved", "out_of_bounds" }
        /\ DOMAIN call.ret = DOMAIN puzzle.initial_state
        /\ Cardinality(DOMAIN call.ret) = Cardinality(DOMAIN call.state)

\* A puzzle with several movables has returned on each of the three paths, the
\* last one a move that displaced some objects and left others in place.
C17_Witness ==
    /\ StandardCall
    /\ outcomes = { "agent_blocked", "transitive_block", "moved" }
    /\ call.path = "moved"
    /\ \E i, j \in DOMAIN call.state :
          call.ret[i] # call.state[i] /\ call.ret[j] = call.state[j]

\* C19: agent_wall_positions of a loaded PushWorldPuzzle is exactly the set of cells
\* authored as "aw"; it holds no cell of the ordinary wall or of the border.
C19_AgentWallPositionsExact ==
    kind = "standard" =>
        /\ puzzle.agent_wall_positions = AuthoredAgentWallCells
        /\ puzzle.agent_wall_positions \cap WallCells = {}

\* The agent is inside the grid of the file.
InBraindeadGrid(p) ==
    /\ 1 <= p[1] /\ p[1] <= layout.cols
    /\ 1 <= p[2] /\ p[2] <= layout.rows

\* C20: bounds of the simplified variant.  In every state reachable by
\* BraindeadPushWorldPuzzle.get_next_state the agent (x, y) has 1 <= x <= width and
\* 1 <= y <= height; an action whose target cell is outside that range returns the
\* input state, and every other action moves the agent by the unit displacement.
C20_BraindeadBounds ==
    kind = "braindead" =>
        /\ DOMAIN state = { AGENT_IDX }
        /\ InBraindeadGrid(state[AGENT_IDX])
        /\ call.op = "get_next_state" =>
              LET target == Add(call.state[AGENT_IDX], UnitDisplacement(call.action))
              IN  IF InBraindeadGrid(target)
                  THEN call.ret = State1(target)
                  ELSE call.ret = call.state

\* The agent, having moved, was kept inside at the right or the lower edge.
C20_Witness ==
    /\ kind = "braindead"
    /\ call.op = "get_next_state"
    /\ "moved" \in outcomes
    /\ call.path = "out_of_bounds"
    /\ call.action \in { RIGHT, DOWN }
    /\ call.ret = call.state

(***************************************************************************)
(* PushWorldEnv (gym_env.py).  env holds the attributes of the environment: *)
(* its puzzles, max_steps, the index of the current puzzle and _steps.      *)
(* The current puzzle object is held by the puzzle variables, and state is  *)
(* _current_state.  Rewards are counted in hundredths.                      *)
(***************************************************************************)
\* An attribute that is None, or that does not exist yet (_steps before the first
\* reset), is the empty tuple, and a value x it holds is Some(x).
None == <<>>
Unset == <<>>
Some(x) == <<x>>
Value(opt) == opt[1]

\* max_steps when it is not None, and the number of step calls followed after a reset.
MaxSteps == 2
StepCap == MaxSteps + 2

\* a  m1 g1 .
\* .  m2 g2 .
GoalsLayout ==
    [ cols |-> 4, rows |-> 2, ids |-> << "a", "m1", "g1", "m2", "g2" >>,
      px |-> [ a |-> { <<1, 1>> }, m1 |-> { <<2, 1>> }, g1 |-> { <<3, 1>> },
               m2 |-> { <<2, 2>> }, g2 |-> { <<3, 2>> } ] ]

\* The files found under puzzle_path.
NumPuzzles == 2
EnvFiles(braindead) ==
    IF braindead THEN << BraindeadWide, BraindeadColumn >> ELSE << GoalsLayout, ScenarioA >>

\* The puzzle object constructed for a file: its attributes and its tables.
EnvLoadPuzzle(braindead, l) ==
    IF braindead
    THEN [ layout |-> l, puzzle |-> LoadBraindeadPuzzle(l),
           agent_collision_map |-> BraindeadAgentCollisionMap,
           wall_collision_map |-> BraindeadWallCollisionMap,
           movable_collision_map |-> BraindeadMovableCollisionMap,
           pushed_objects |-> InitialPushedObjects(1) ]
    ELSE [ layout |-> l, puzzle |-> LoadPuzzle(l),
           agent_collision_map |-> LoadAgentCollisionMap(l),
           wall_collision_map |-> LoadWallCollisionMap(l),
           movable_collision_map |-> LoadMovableCollisionMap(l),
           pushed_objects |-> InitialPushedObjects(LoadPuzzle(l).num_movables) ]

\* self._puzzles
EnvPuzzles(braindead) ==
    [ i \in 1 .. NumPuzzles |-> EnvLoadPuzzle(braindead, EnvFiles(braindead)[i]) ]

NoLayout == [ cols |-> 0, rows |-> 0, ids |-> <<>>, px |-> <<>> ]

\* The arguments callers pass: any integer near the action range, and the options
\* None, {"maintain_puzzle": False}, {"maintain_puzzle": True} and {}.
EnvActions == ActionSet \cup OutOfRangeActions
ResetOptions == { "None", "maintain_puzzle_false", "maintain_puzzle_true", "empty" }

InitEnv ==
    /\ env \in { [ created |-> TRUE, braindead |-> b, puzzles |-> EnvPuzzles(b),
                   max_steps |-> m, current_puzzle |-> None, steps |-> Unset ] :
                 b \in BOOLEAN, m \in { None, Some(MaxSteps) } }
    /\ kind = IF env.braindead THEN "braindead" ELSE "standard"
    /\ layout = NoLayout
    /\ puzzle = NoPuzzle
    /\ agent_collision_map = <<>>
    /\ wall_collision_map = <<>>
    /\ movable_collision_map = <<>>
    /\ pushed_objects = <<>>
    /\ state = None
    /\ call = [ op |-> "init", k |-> 0 ]
    /\ outcomes = {}
    /\ threads = <<>>
    /\ folders = NoFolders

\* As ChoosePuzzle, with a puzzle drawn on every reset.
ChoosePuzzle_always_drawn(options, current, choice) == Some(choice)

\* The puzzle reset makes current; choice is the outcome of _random_generator.choice.
ChoosePuzzle(options, current, choice) ==
    IF options = "None" \/ options = "maintain_puzzle_false" THEN Some(choice) ELSE current

\* The exception reset raises: options["maintain_puzzle"] on {} and
\* None.initial_state when the puzzle is to be kept before any puzzle was chosen.
ResetError(options, current) ==
    IF options = "empty" THEN "KeyError"
    ELSE IF options = "maintain_puzzle_true" /\ current = None THEN "AttributeError"
    ELSE "none"

\* observation, info = env.reset(options = options)
EnvReset(options, choice) ==
    LET raised == ResetError(options, env.current_puzzle)
        chosen == ChoosePuzzle(options, env.current_puzzle, choice)
        idx == Value(chosen)
        \* the puzzles, with the current one as its calls have left it
        puzzles == IF env.current_puzzle = None
                   THEN env.puzzles
                   ELSE [ env.puzzles EXCEPT
                            ![Value(env.current_puzzle)].pushed_objects = pushed_objects ]
    IN  IF raised # "none"
        THEN /\ call' = [ op |-> "reset", options |-> options, raised |-> raised,
                          k |-> call.k ]
             /\ UNCHANGED <<folders, env, kind, layout, puzzle, agent_collision_map,
                            wall_collision_map, movable_collision_map, pushed_objects,
                            state, outcomes, threads>>
        ELSE /\ layout' = puzzles[idx].layout
             /\ puzzle' = puzzles[idx].puzzle
             /\ agent_collision_map' = puzzles[idx].agent_collision_map
             /\ wall_collision_map' = puzzles[idx].wall_collision_map
             /\ movable_collision_map' = puzzles[idx].movable_collision_map
             /\ pushed_objects' = puzzles[idx].pushed_objects
             /\ state' = puzzles[idx].puzzle.initial_state
             /\ env' = [ env EXCEPT !.current_puzzle = chosen, !.steps = Some(0),
                                    !.puzzles = puzzles ]
             /\ call' = [ op |-> "reset", options |-> options, raised |-> "none", k |-> 0,
                          before_puzzle |-> env.current_puzzle, before_steps |-> env.steps,
                          info |-> [ puzzle_state |-> puzzles[idx].puzzle.initial_state ] ]
             /\ UNCHANGED <<folders, kind, outcomes, threads>>

\* self._action_space.contains(action), the action space being Discrete(NUM_ACTIONS)
ActionSpaceContains(action) == 0 <= action /\ action < NUM_ACTIONS

\* As StepError, with only the upper end of the action range tested.
StepError_upper_end_only(action, current_state) ==
    IF ~(action < NUM_ACTIONS) THEN "ValueError"
    ELSE IF current_state = None THEN "RuntimeError"
    ELSE "none"

\* As StepError, without the test that reset was called.
StepError_no_reset_test(action, current_state) ==
    IF ~ActionSpaceContains(action) THEN "ValueError" ELSE "none"

\* The exception step raises before it touches the episode.
StepError(action, current_state) ==
    IF ~ActionSpaceContains(action) THEN "ValueError"
    ELSE IF current_state = None THEN "RuntimeError"
    ELSE "none"

\* self._current_puzzle.get_next_state(self._current_state, action) for any integer.
EnvGetNextState(action) ==
    IF env.braindead
    THEN IF ~PyIndexable(NUM_ACTIONS, action)
         THEN [ raised |-> "IndexError", ret |-> state, pushed |-> pushed_objects,
                path |-> "raised" ]
         ELSE LET r == braindead_get_next_state(state, PyIndex(NUM_ACTIONS, action))
              IN  [ raised |-> "none", ret |-> r.ret, pushed |-> pushed_objects,
                    path |-> r.path ]
    ELSE get_next_state_any(pushed_objects, state, action)

\* As StepReward, without the cost of a step.
StepReward_no_step_cost(terminated, previous_achieved_goals, current_achieved_goals) ==
    IF terminated THEN 1000
    ELSE (current_achieved_goals - previous_achieved_goals) * 100

\* reward, in hundredths: 10.0, or the change in achieved goals less 0.01.
StepReward(terminated, previous_achieved_goals, current_achieved_goals) ==
    IF terminated THEN 1000
    ELSE (current_achieved_goals - previous_achieved_goals) * 100 - 1

\* As Truncated, with the limit reached one step later.
Truncated_one_late(max_steps, steps) ==
    IF max_steps = None THEN FALSE ELSE steps > Value(max_steps)

\* truncated
Truncated(max_steps, steps) ==
    IF max_steps = None THEN FALSE ELSE steps >= Value(max_steps)

\* observation, reward, terminated, truncated, info = env.step(action)
EnvStep(action) ==
    LET raised == StepError(action, state)
    IN  IF raised # "none"
        THEN /\ call' = [ op |-> "step", action |-> action, raised |-> raised, k |-> call.k ]
             /\ UNCHANGED <<folders, env, kind, layout, puzzle, agent_collision_map,
                            wall_collision_map, movable_collision_map, pushed_objects,
                            state, outcomes, threads>>
        ELSE IF env.steps = Unset
        THEN \* self._steps += 1 before any reset
             /\ call' = [ op |-> "step", action |-> action, raised |-> "AttributeError",
                          k |-> call.k ]
             /\ UNCHANGED <<folders, env, kind, layout, puzzle, agent_collision_map,
                            wall_collision_map, movable_collision_map, pushed_objects,
                            state, outcomes, threads>>
        ELSE /\ Value(env.steps) < StepCap
             /\ LET r == EnvGetNextState(action)
                    terminated == IsGoal(r.ret)
                IN  /\ env' = [ env EXCEPT !.steps = Some(Value(env.steps) + 1) ]
                    /\ state' = r.ret
                    /\ pushed_objects' = r.pushed
                    /\ outcomes' = outcomes \cup { r.path }
                    /\ call' =
                         IF r.raised # "none"
                         THEN [ op |-> "step", action |-> action, raised |-> r.raised,
                                k |-> call.k ]
                         ELSE [ op |-> "step", action |-> action, raised |-> "none",
                                k |-> call.k + 1, previous_state |-> state,
                                reward |-> StepReward(terminated, AchievedGoals(state),
                                                      AchievedGoals(r.ret)),
                                terminated |-> terminated,
                                truncated |-> Truncated(env.max_steps, Value(env.steps) + 1),
                                info |-> [ puzzle_state |-> r.ret ] ]
             /\ UNCHANGED <<folders, kind, layout, puzzle, agent_collision_map,
                            wall_collision_map, movable_collision_map, threads>>

NextEnv ==
    \/ \E options \in ResetOptions, choice \in 1 .. NumPuzzles : EnvReset(options, choice)
    \/ \E action \in EnvActions : EnvStep(action)

SpecEnv == InitEnv /\ [][NextEnv]_vars

\* A call of step that returned, and a call of reset that returned.
StepReturned == call.op = "step" /\ call.raised = "none"
ResetReturned == call.op = "reset" /\ call.raised = "none"

\* C21: the environment rejects invalid actions without changing the episode.  A
\* call of step with an action outside 0..3 raises an error, and the current state,
\* the current puzzle and the step counter are after it what they were before.
C21_InvalidActionRejected ==
    [][ (call'.op = "step" /\ call'.action \notin 0 .. 3) =>
            /\ call'.raised # "none"
            /\ state' = state
            /\ env'.current_puzzle = env.current_puzzle
            /\ env'.steps = env.steps
            /\ puzzle' = puzzle
            /\ layout' = layout ]_vars

\* In the course of an episode a negative action was refused.
C21_Witness ==
    /\ call.op = "step"
    /\ call.action < 0
    /\ call.raised = "ValueError"
    /\ state # None
    /\ env.steps # Unset
    /\ Value(env.steps) > 0

\* C22: step before reset.  A call of step with a valid action before any reset
\* raises the error that reset() must be called first and makes no transition: the
\* current state stays uninitialized.
C22_StepBeforeReset ==
    [][ (call'.op = "step" /\ call'.action \in ActionSet /\ state = None) =>
            /\ call'.raised = "RuntimeError"
            /\ state' = None
            /\ env' = env ]_vars

\* A valid action was refused on an environment that was never reset.
C22_Witness ==
    /\ call.op = "step"
    /\ call.action \in ActionSet
    /\ call.raised = "RuntimeError"
    /\ state = None
    /\ env.current_puzzle = None

\* C23: step limit.  call.k counts the calls of step that returned since the most
\* recent reset.  With max_steps = N the truncated flag of the k-th of them is true
\* iff k >= N; with max_steps = None it is always false.  Every reset, also one that
\* keeps the puzzle, restarts the count at zero.
C23_StepLimit ==
    /\ StepReturned =>
          /\ call.truncated = (env.max_steps # None /\ call.k >= Value(env.max_steps))
          /\ env.steps = Some(call.k)
    /\ ResetReturned => (call.k = 0 /\ env.steps = Some(0))

\* The N-th step after a reset reported the limit.
C23_Witness ==
    /\ StepReturned
    /\ env.max_steps = Some(MaxSteps)
    /\ call.k = MaxSteps
    /\ call.truncated

\* The goals a state meets, by the positions: the movables on their goals, and in
\* the simplified variant the agent on the goal.
GoalsMet(st) ==
    IF env.braindead
    THEN (IF st[AGENT_IDX] = puzzle.goal_state[0] THEN 1 ELSE 0)
    ELSE MatchedGoals(st)

\* C24: reward and termination.  For every step, terminated equals is_goal_state of
\* the new state; the reward is 10 when terminated and otherwise the change in
\* count_achieved_goals less 0.01, so that a step that neither terminates nor
\* changes a goal yields -0.01.
C24_RewardAndTermination ==
    StepReturned =>
        /\ call.terminated = IsGoal(state)
        /\ call.terminated = (GoalsMet(state) = NumGoals)
        /\ call.reward = IF call.terminated
                         THEN 1000
                         ELSE (GoalsMet(state) - GoalsMet(call.previous_state)) * 100 - 1
        /\ (~call.terminated /\ GoalsMet(state) = GoalsMet(call.previous_state))
              => call.reward = 0 - 1

\* A step put a movable on its goal without ending the episode.
C24_Witness ==
    /\ StepReturned
    /\ ~call.terminated
    /\ GoalsMet(state) = GoalsMet(call.previous_state) + 1
    /\ call.reward = 99

ULayout ==
    [ cols |-> 5, rows |-> 2, ids |-> << "a", "m1", "m2" >>,
      px |-> [ a |-> { <<1, 1>> },
               m1 |-> { <<2, 1>>, <<4, 1>>, <<2, 2>>, <<3, 2>>, <<4, 2>> },
               m2 |-> { <<3, 1>> } ] ]

\* a  m1 .  .
\* a  m2 .  w
\* .  .  .  .
PairLayout ==
    [ cols |-> 4, rows |-> 3, ids |-> << "a", "m1", "m2", "w" >>,
      px |-> [ a |-> { <<1, 1>>, <<1, 2>> }, m1 |-> { <<2, 1>> }, m2 |-> { <<2, 2>> },
               w |-> { <<4, 2>> } ] ]

\* a  m1 m2 .
\* .  .  .  aw
LineLayout ==
    [ cols |-> 4, rows |-> 2, ids |-> << "a", "m1", "m2", "aw" >>,
      px |-> [ a |-> { <<1, 1>> }, m1 |-> { <<2, 1>> }, m2 |-> { <<3, 1>> },
               aw |-> { <<4, 2>> } ] ]

PushLayouts == { ULayout, PairLayout, LineLayout }

InitPush ==
    /\ kind = "standard"
    /\ layout \in PushLayouts
    /\ puzzle = LoadPuzzle(layout)
    /\ agent_collision_map = LoadAgentCollisionMap(layout)
    /\ wall_collision_map = LoadWallCollisionMap(layout)
    /\ movable_collision_map = LoadMovableCollisionMap(layout)
    /\ pushed_objects = InitialPushedObjects(puzzle.num_movables)
    /\ state = puzzle.initial_state
    /\ call = NoCall
    /\ outcomes = {}
    /\ threads = [ t \in Threads |-> IdleThread(puzzle.initial_state) ]
    /\ env = NoEnv
    /\ folders = NoFolders

NextPush == \E action \in ActionSet : GetNextState(action)

SpecPush == InitPush /\ [][NextPush]_vars

\* A call that got past the test of the agent.
PropagatingCall == StandardCall /\ call.path # "agent_blocked"

C27_PropagationTerminates ==
    PropagatingCall =>
        LET r == WhileFrontier(call.action, call.state, <<AGENT_IDX>>,
                               InitialPushedObjects(puzzle.num_movables))
            on_list == <<AGENT_IDX>> \o r.placed
        IN  /\ \A i, j \in DOMAIN on_list : on_list[i] = on_list[j] => i = j
            /\ Len(on_list) <= puzzle.num_movables
            /\ Len(r.popped) <= puzzle.num_movables

\* A call moved two movables each of which pushes the other.
C27_Witness ==
    /\ PropagatingCall
    /\ call.path = "moved"
    /\ \E m, k \in 1 .. (puzzle.num_movables - 1) :
          /\ m # k
          /\ Enters(call.state, call.action, m, k)
          /\ Enters(call.state, call.action, k, m)
          /\ call.ret[m] # call.state[m]
          /\ call.ret[k] # call.state[k]

\* The pairs (m, k) of the indices in among with m pushing k in the direction of
\* action, by the tables, and whether following them leads back to a start.
PushContacts(action, st, among) ==
    { mk \in among \X among : mk[2] # AGENT_IDX /\ IsPushedBy(action, st, mk[1], mk[2]) }

RECURSIVE ReachedFrom(_, _)
ReachedFrom(contacts, reached) ==
    LET more == reached \cup { mk[2] : mk \in { c \in contacts : c[1] \in reached } }
    IN  IF more = reached THEN reached ELSE ReachedFrom(contacts, more)

Acyclic(contacts) ==
    \A mk \in contacts : mk[1] \notin ReachedFrom(contacts, { mk[2] })

OneCell(i) == Cardinality(puzzle.cells[i]) = 1

\* C30 as stated: in every configuration and direction the push-contact relation
\* between movables, whatever their shapes, is acyclic.
C30_Original ==
    kind = "standard" =>
        \A action \in ActionSet :
            Acyclic(PushContacts(action, state, DOMAIN state))

\* C30, amended: in every configuration and direction the push-contact relation
\* between the movables of one cell is acyclic; a movable with several cells can
\* push a movable that pushes it.
C30_NoPushCyclesOfCells ==
    kind = "standard" =>
        \A action \in ActionSet :
            /\ Acyclic(PushContacts(action, state, { i \in DOMAIN state : OneCell(i) }))
            /\ \A m, k \in DOMAIN state :
                  (IsPushedBy(action, state, m, k) /\ IsPushedBy(action, state, k, m))
                      => (~OneCell(m) \/ ~OneCell(k))

\* A movable of one cell pushed another one, and both were moved.
C30_Witness ==
    /\ PropagatingCall
    /\ call.path = "moved"
    /\ \E m, k \in 1 .. (puzzle.num_movables - 1) :
          /\ OneCell(m) /\ OneCell(k)
          /\ IsPushedBy(call.action, call.state, m, k)
          /\ call.ret[m] # call.state[m]
          /\ call.ret[k] # call.state[k]

\* The cells of movable i when its position is p, the static obstacles of i (for
\* the agent the agent walls too), the table built for i, and the positions at
\* which i lies inside the bordered grid.
ShapeAt(i, p) == { Add(p, c) : c \in puzzle.cells[i] }

StaticObstacles(i) ==
    IF i = AGENT_IDX THEN WallCells \cup AuthoredAgentWallCells ELSE WallCells

StaticTable(action, i) ==
    IF i = AGENT_IDX THEN agent_collision_map[action] ELSE wall_collision_map[action][i]

AnchorRange(i) ==
    LET xs == { c[1] : c \in puzzle.cells[i] }
        ys == { c[2] : c \in puzzle.cells[i] }
    IN  { <<x, y>> : x \in 0 .. (layout.cols + 2 - (Max(xs) - Min(xs) + 1)),
                     y \in 0 .. (layout.rows + 2 - (Max(ys) - Min(ys) + 1)) }

\* C28: the static blocking set is exact.  For every direction, object and anchor p
\* of the anchor range at which the object does not intersect the static obstacle,
\* p is in the set built by _populate_static_collisions iff the object translated
\* to p + unit(d) intersects the obstacle; no anchor at which the object intersects
\* the obstacle untranslated is in the set.
C28_StaticBlockingSetExact ==
    kind = "standard" =>
        \A action \in ActionSet, i \in DOMAIN state :
            \A p \in AnchorRange(i) :
                IF ShapeAt(i, p) \cap StaticObstacles(i) # {}
                THEN p \notin StaticTable(action, i)
                ELSE p \in StaticTable(action, i)
                        <=> (ShapeAt(i, Add(p, UnitDisplacement(action)))
                                \cap StaticObstacles(i) # {})

\* The table of a movable of several cells holds positions, and leaves out one at
\* which the movable lies on a wall before and after the move.
C28_Witness ==
    /\ kind = "standard"
    /\ \E action \in ActionSet, i \in 1 .. (puzzle.num_movables - 1) :
          /\ ~OneCell(i)
          /\ StaticTable(action, i) # {}
          /\ \E p \in AnchorRange(i) :
                /\ ShapeAt(i, p) \cap StaticObstacles(i) # {}
                /\ ShapeAt(i, Add(p, UnitDisplacement(action))) \cap StaticObstacles(i) # {}
                /\ p \notin StaticTable(action, i)

\* The offsets two anchors of the grid can differ by.
Offsets ==
    LET n == Max({ layout.cols, layout.rows }) + 2
    IN  { <<x, y>> : x \in (0 - n) .. n, y \in (0 - n) .. n }

\* With the pusher at anchor at_pusher and the pushee at anchor at_pushee the two do
\* not overlap, and the pusher moved by the unit displacement has a cell on a cell
\* of the pushee.
PushContact(action, pusher, at_pusher, pushee, at_pushee) ==
    /\ ShapeAt(pusher, at_pusher) \cap ShapeAt(pushee, at_pushee) = {}
    /\ ShapeAt(pusher, Add(at_pusher, UnitDisplacement(action)))
          \cap ShapeAt(pushee, at_pushee) # {}

\* C29 as stated: pushes[dir][pusher][pushee] is the set of offsets
\* r = pushee.anchor - pusher.anchor of push contact.
C29_Original ==
    kind = "standard" =>
        \A action \in ActionSet, pusher \in DOMAIN state :
            \A pushee \in 1 .. (puzzle.num_movables - 1) :
                movable_collision_map[action][pusher][pushee]
                    = { r \in Offsets : PushContact(action, pusher, <<0, 0>>, pushee, r) }

\* C29, amended: pushes[dir][pusher][pushee] is the set of offsets
\* r = pusher.anchor - pushee.anchor (pusher minus pushee) at which the two shapes
\* do not overlap and moving the pusher by the unit displacement of dir makes a
\* pusher cell coincide with a pushee cell; get_next_state looks up
\* state[pusher] - state[pushee].
C29_PusherMinusPushee ==
    kind = "standard" =>
        \A action \in ActionSet, pusher \in DOMAIN state :
            \A pushee \in 1 .. (puzzle.num_movables - 1) :
                /\ movable_collision_map[action][pusher][pushee]
                      = { r \in Offsets : PushContact(action, pusher, r, pushee, <<0, 0>>) }
                /\ pusher # pushee =>
                      (IsPushedBy(action, state, pusher, pushee)
                          <=> Enters(state, action, pusher, pushee))

\* A call moved a movable that the table of a shape of several cells, which differs
\* from its mirror image, names as pushed.
C29_Witness ==
    /\ PropagatingCall
    /\ call.path = "moved"
    /\ \E pusher \in DOMAIN state, pushee \in 1 .. (puzzle.num_movables - 1) :
          LET table == movable_collision_map[call.action][pusher][pushee]
          IN  /\ ~OneCell(pusher)
              /\ Cardinality(table) >= 2
              /\ table # { <<0 - r[1], 0 - r[2]>> : r \in table }
              /\ Sub(call.state[pusher], call.state[pushee]) \in table
              /\ call.ret[pushee] # call.state[pushee]

\* C31: scratch reset invariant.  Whenever a call of get_next_state has returned, on
\* any of its three return paths, the pushed markers of the instance are true at
\* the index of the agent and false at every other index.
C31_ScratchReset ==
    StandardCall =>
        /\ call.path \in { "agent_blocked", "transitive_block", "moved" }
        /\ DOMAIN pushed_objects = DOMAIN puzzle.initial_state
        /\ pushed_objects[AGENT_IDX]
        /\ \A i \in (DOMAIN pushed_objects) \ { AGENT_IDX } : ~pushed_objects[i]

\* The three paths were taken, the last call a block found after a free movable
\* had been marked.
C31_Witness ==
    /\ StandardCall
    /\ outcomes = { "agent_blocked", "transitive_block", "moved" }
    /\ call.path = "transitive_block"
    /\ \E k \in 1 .. (puzzle.num_movables - 1) :
          /\ Enters(call.state, call.action, AGENT_IDX, k)
          /\ ~IsWallBlocked(call.action, call.state, k)

\* C32: single unit displacement.  In every transition of get_next_state with action
\* a, the position at each index changes by (0,0) or by the unit displacement of a;
\* a movable other than the agent changes position only when the agent does, and
\* no table lets a movable push the agent.
C32_SingleUnitDisplacement ==
    StandardCall =>
        /\ \A i \in DOMAIN call.state :
              Sub(call.ret[i], call.state[i]) \in { <<0, 0>>, UnitDisplacement(call.action) }
        /\ (\E i \in (DOMAIN call.state) \ { AGENT_IDX } : call.ret[i] # call.state[i])
              => call.ret[AGENT_IDX] # call.state[AGENT_IDX]
        /\ \A action \in ActionSet, pusher \in DOMAIN call.state :
              movable_collision_map[action][pusher][AGENT_IDX] = {}

\* A movable of several cells was pushed by another movable, not by the agent.
C32_Witness ==
    /\ StandardCall
    /\ call.path = "moved"
    /\ \E i \in (DOMAIN call.state) \ { AGENT_IDX } :
          /\ Cardinality(puzzle.cells[i]) > 1
          /\ call.ret[i] = Add(call.state[i], UnitDisplacement(call.action))
          /\ ~Enters(call.state, call.action, AGENT_IDX, i)

\* C33: border containment.  For an authored grid of W columns and H rows, in every
\* state reachable by get_next_state every cell of the agent and of a movable lies
\* in [1, W] x [1, H]; no object is on the border at x = 0, x = W + 1, y = 0 or
\* y = H + 1.
C33_BorderContainment ==
    kind = "standard" =>
        \A i \in DOMAIN state : \A c \in Cells(state, i) :
            /\ 1 <= c[1] /\ c[1] <= layout.cols
            /\ 1 <= c[2] /\ c[2] <= layout.rows

\* The agent was stopped at the border, and before that a movable pushed against
\* the border has stopped a move.
C33_Witness ==
    /\ StandardCall
    /\ "transitive_block" \in outcomes
    /\ call.path = "agent_blocked"
    /\ \E c \in Cells(call.state, AGENT_IDX) :
          LET target == Add(c, UnitDisplacement(call.action))
          IN  target[1] \in { 0, layout.cols + 1 } \/ target[2] \in { 0, layout.rows + 1 }

(***************************************************************************)
(* shuffle_puzzles: the split of the puzzles of the original folder into    *)
(* the train, test and archive folders.  A directory entry is a pair        *)
(* <<stem, suffix>>, a folder is a record of whether the directory exists   *)
(* and of the regular files in it.  The three percentages are whole         *)
(* multiples of one unit, so a percentage over the total is the fraction    *)
(* <<percent, total>> whether or not the code normalizes.                   *)
(***************************************************************************)
MaxPercent == 2
Percents == 0 .. MaxPercent

PuzzleNames == { <<"p1", "pwp">>, <<"p2", "pwp">>, <<"p3", "pwp">> }
OtherNames == { <<"notes", "txt">> }
StaleNames == { <<"old", "pwp">> }

MissingFolder == [ exists |-> FALSE, files |-> {} ]
Folder(files) == [ exists |-> TRUE, files |-> files ]

\* file.endswith(".pwp"), and the pattern "*.pwp" of glob
EndsWithPwp(file) == file[2] = "pwp"

\* The names list_puzzle_files returns; glob gives them in no particular order.
list_puzzle_files(directory) ==
    IF ~directory.exists THEN {} ELSE { file \in directory.files : EndsWithPwp(file) }

\* The orders random.shuffle can leave the list in.
RECURSIVE Orderings(_)
Orderings(files) ==
    IF files = {}
    THEN { <<>> }
    ELSE UNION { { <<file>> \o rest : rest \in Orderings(files \ { file }) } : file \in files }

\* int(total_files * fraction) in floating point: the product of an exact whole
\* value can come out one unit in the last place below it, and int() truncates.
IntOfProduct(total_files, fraction) ==
    LET exact == total_files * fraction[1]
        floor == exact \div fraction[2]
    IN  IF /\ exact % fraction[2] = 0
           /\ 0 < fraction[1] /\ fraction[1] < fraction[2]
           /\ floor > 0
        THEN { floor - 1, floor }
        ELSE { floor }

\* list[start:stop] for start and stop that are not negative
PySlice(list, start, stop) ==
    SubSeq(list, Min({ start, Len(list) }) + 1, Min({ stop, Len(list) }))

\* As ClearDirectory, with nothing removed.
ClearDirectory_nothing_removed(directory) == directory

\* The inner loop that clears one target directory.
ClearDirectory(directory) ==
    [ directory EXCEPT !.files = { file \in @ : ~EndsWithPwp(file) } ]

TargetNames == <<"train", "test", "archive">>

\* The loop over the target directories; os.listdir raises on a missing one.
RECURSIVE ClearTargets(_, _)
ClearTargets(fs, i) ==
    IF i > Len(TargetNames)
    THEN [ raised |-> "none", folders |-> fs ]
    ELSE IF ~fs[TargetNames[i]].exists
         THEN [ raised |-> "FileNotFoundError", folders |-> fs ]
         ELSE ClearTargets([ fs EXCEPT ![TargetNames[i]] = ClearDirectory(@) ], i + 1)

\* shutil.copy2 of every file of the subset into the target
CopyFiles(fs, target, subset) ==
    [ fs EXCEPT ![target].files = @ \cup Range(subset) ]

\* The split of the shuffled list and the copies.
Distribute(fs, puzzle_files, train_count, test_count) ==
    LET train_subset == PySlice(puzzle_files, 0, train_count)
        test_subset == PySlice(puzzle_files, train_count, train_count + test_count)
        archive_subset == PySlice(puzzle_files, train_count + test_count, Len(puzzle_files))
    IN  [ raised |-> "none",
          folders |-> CopyFiles(CopyFiles(CopyFiles(fs, "train", train_subset),
                                          "test", test_subset),
                                "archive", archive_subset),
          result |-> [ train |-> Len(train_subset), test |-> Len(test_subset),
                       archive |-> Len(archive_subset) ] ]

\* The outcomes of shuffle_puzzles, one for each order and each rounding.
shuffle_puzzles(fs, train_percent, test_percent, archive_percent) ==
    LET total == train_percent + test_percent + archive_percent
        cleared == ClearTargets(fs, 1)
        listed == list_puzzle_files(cleared.folders.original)
        total_files == Cardinality(listed)
    IN  IF total = 0
        THEN { [ raised |-> "ZeroDivisionError", folders |-> fs ] }
        ELSE IF cleared.raised # "none"
        THEN { [ raised |-> cleared.raised, folders |-> cleared.folders ] }
        ELSE IF listed = {}
        THEN { [ raised |-> "none", folders |-> cleared.folders,
                 result |-> [ train |-> 0, test |-> 0, archive |-> 0 ] ] }
        ELSE { Distribute(cleared.folders, puzzle_files, train_count, test_count) :
                  puzzle_files \in Orderings(listed),
                  train_count \in IntOfProduct(total_files, <<train_percent, total>>),
                  test_count \in IntOfProduct(total_files, <<test_percent, total>>) }

OriginalFolders ==
    { MissingFolder }
        \cup { Folder(puzzles \cup OtherNames) :
                  puzzles \in { {}, { <<"p1", "pwp">> }, { <<"p1", "pwp">>, <<"p2", "pwp">> },
                                PuzzleNames } }

InitialTargets ==
    { [ train |-> Folder({}), test |-> Folder({}), archive |-> Folder({}) ],
      [ train |-> Folder(StaleNames \cup OtherNames \cup { <<"p1", "pwp">> }),
        test |-> Folder(StaleNames),
        archive |-> Folder({ <<"p2", "pwp">> }) ],
      [ train |-> Folder(StaleNames), test |-> Folder({}), archive |-> MissingFolder ] }

InitShuffle ==
    /\ folders \in { [ original |-> original, train |-> targets.train,
                       test |-> targets.test, archive |-> targets.archive ] :
                        original \in OriginalFolders, targets \in InitialTargets }
    /\ kind = "none"
    /\ layout = NoLayout
    /\ puzzle = NoPuzzle
    /\ agent_collision_map = <<>>
    /\ wall_collision_map = <<>>
    /\ movable_collision_map = <<>>
    /\ pushed_objects = <<>>
    /\ state = None
    /\ call = NoCall
    /\ outcomes = {}
    /\ threads = <<>>
    /\ env = NoEnv

ShufflePuzzles(train_percent, test_percent, archive_percent) ==
    /\ \E r \in shuffle_puzzles(folders, train_percent, test_percent, archive_percent) :
          /\ folders' = r.folders
          /\ call' = IF r.raised = "none"
                     THEN [ op |-> "shuffle_puzzles", train_percent |-> train_percent,
                            test_percent |-> test_percent,
                            archive_percent |-> archive_percent,
                            before |-> folders, raised |-> r.raised, result |-> r.result ]
                     ELSE [ op |-> "shuffle_puzzles", train_percent |-> train_percent,
                            test_percent |-> test_percent,
                            archive_percent |-> archive_percent,
                            before |-> folders, raised |-> r.raised ]
    /\ UNCHANGED <<env, kind, layout, puzzle, agent_collision_map, wall_collision_map,
                   movable_collision_map, pushed_objects, state, outcomes, threads>>

NextShuffle ==
    \E train_percent \in Percents, test_percent \in Percents, archive_percent \in Percents :
        ShufflePuzzles(train_percent, test_percent, archive_percent)

SpecShuffle == InitShuffle /\ [][NextShuffle]_vars

ShuffleReturned == call.op = "shuffle_puzzles" /\ call.raised = "none"

PwpFiles(folder) == { file \in folder.files : EndsWithPwp(file) }

\* C34: the puzzle split is a partition.  When shuffle_puzzles has returned for
\* percentages that are not negative and have a positive sum, every .pwp file of
\* the original folder is in exactly one of train, test and archive, the three
\* counts returned sum to the number of original puzzle files, and the three
\* targets hold no .pwp file other than those copies, stale files included, also
\* when the original folder holds no puzzle.
C34_SplitIsPartition ==
    ShuffleReturned =>
        LET originals == list_puzzle_files(call.before.original)
            train == PwpFiles(folders.train)
            test == PwpFiles(folders.test)
            archive == PwpFiles(folders.archive)
        IN  /\ call.train_percent + call.test_percent + call.archive_percent > 0
            /\ folders.original = call.before.original
            /\ train \cup test \cup archive = originals
            /\ train \cap test = {} /\ train \cap archive = {} /\ test \cap archive = {}
            /\ call.result.train + call.result.test + call.result.archive
                  = Cardinality(originals)
            /\ call.result.train = Cardinality(train)
            /\ call.result.test = Cardinality(test)
            /\ call.result.archive = Cardinality(archive)

\* Each target received a puzzle; before the call one target held a puzzle that is
\* not in the original folder and another a puzzle that went elsewhere.
C34_Witness ==
    /\ ShuffleReturned
    /\ \A target \in Range(TargetNames) : PwpFiles(folders[target]) # {}
    /\ \E target \in Range(TargetNames) :
          PwpFiles(call.before[target]) \ list_puzzle_files(call.before.original) # {}
    /\ \E target \in Range(TargetNames) :
          (PwpFiles(call.before[target]) \cap list_puzzle_files(call.before.original))
              \ PwpFiles(folders[target]) # {}

====
